---- MODULE Spec2Model ----
(***************************************************************************)
(* The shared document store of the whiteboard (useWhiteboardStore, the    *)
(* y-websocket version) run by two participants.  Every participant owns a *)
(* Y.Doc; a store operation changes the local Y.Doc in one or more Yjs     *)
(* transactions, every transaction that changed something is sent to the   *)
(* other participants as one update, and a received update is merged into  *)
(* the local Y.Doc in one transaction.  After every transaction the        *)
(* observers run syncData, which publishes the snapshot the UI renders.    *)
(*                                                                         *)
(* Yjs itself is modelled by what it does: a Y.Array and every key of a    *)
(* Y.Map is a list of items (id, origin, right origin, value, deleted)     *)
(* ordered by the YATA rule; updates are delivered in any order that       *)
(* respects causality (the relay and its sockets are ordered).             *)
(***************************************************************************)
EXTENDS Integers, Sequences, FiniteSets, TLC

\* The participants.  A participant's number is also its Y.Doc clientID.
Rep == {1, 2}

UserId(r) == IF r = 1 THEN "u1" ELSE "u2"

UserName(r) == IF r = 1 THEN "Ann" ELSE "Bob"

UserIds == {UserId(r) : r \in Rep}

PathIds == {"p1", "p2"}

NoteIds == {"n1"}

ImageIds == {"i1"}

FileIds == {"f1"}

USER_COLORS ==
  << "#fee2e2", "#ffedd5", "#fef3c7", "#ecfccb", "#d1fae5", "#cffafe",
     "#dbeafe", "#ede9fe", "#fce7f3", "#f5f5f5", "#e2e8f0", "#e0f2fe" >>

\* undefined, null and '' are all falsy in the code's || chains.
Undef == ""

VARIABLES doc, clock, localUser, pub, log, applied, budget, ui, conn

vars == <<doc, clock, localUser, pub, log, applied, budget, ui, conn>>

\* what the store hook holds: the Y.Doc, localUserRef, the published state, the
\* updates sent and merged
store == <<doc, clock, localUser, pub, log, applied, budget>>

----------------------------------------------------------------------------
(* Yjs: items, lists, transactions *)

None == <<0, 0>>

ArrayTypes == {"paths", "user_order"}

MapTypes == {"notes", "notes_meta", "images", "images_meta", "files", "files_meta", "users"}

KeysOf(ty) ==
  CASE ty \in {"notes", "notes_meta"} -> NoteIds
    [] ty \in {"images", "images_meta"} -> ImageIds
    [] ty \in {"files", "files_meta"} -> FileIds
    [] ty = "users" -> UserIds
    [] OTHER -> {"-"}

Slots == UNION {{<<ty, k>> : k \in KeysOf(ty)} : ty \in ArrayTypes \cup MapTypes}

EmptyDoc == [s \in Slots |-> <<>>]

Pos(seq, id) == CHOOSE i \in 1..Len(seq) : seq[i].id = id

InsertAt(seq, i, x) == SubSeq(seq, 1, i - 1) \o <<x>> \o SubSeq(seq, i, Len(seq))

IsLive(it) == ~it.del

Visible(seq) == SelectSeq(seq, IsLive)

\* Y.Array.toArray
ToArray(seq) == [i \in 1..Len(Visible(seq)) |-> Visible(seq)[i].val]

\* the position in the list of the k-th item that is not deleted
NthVisible(seq, k) ==
  CHOOSE i \in 1..Len(seq) :
    /\ ~seq[i].del
    /\ Cardinality({j \in 1..i : ~seq[j].del}) = k

\* A transaction in progress: the document, the client's clock, the items
\* created, the items deleted and the shared types changed so far.
Begin(rs) == [d |-> rs.d, c |-> rs.c, items |-> <<>>, dels |-> {}, ch |-> {}]

NewItemAfter(t, r, s, p, val) ==
  LET seq == t.d[s]
      it == [id |-> <<r, t.c>>,
             origin |-> IF p = 0 THEN None ELSE seq[p].id,
             right |-> IF p = Len(seq) THEN None ELSE seq[p + 1].id,
             val |-> val,
             del |-> FALSE]
  IN [t EXCEPT !.d[s] = InsertAt(seq, p + 1, it),
               !.c = @ + 1,
               !.items = Append(@, [slot |-> s, item |-> it]),
               !.ch = @ \cup {s[1]}]

\* Y.Array.insert(index, [val]): after the index-th live item
YArrayInsert(t, r, ty, index, val) ==
  LET s == <<ty, "-">>
  IN NewItemAfter(t, r, s, IF index = 0 THEN 0 ELSE NthVisible(t.d[s], index), val)

\* Y.Array.push([val]): after the last item, deleted or not
YArrayPush(t, r, ty, val) ==
  LET s == <<ty, "-">>
  IN NewItemAfter(t, r, s, Len(t.d[s]), val)

\* Y.Array.delete(index, length)
YArrayDelete(t, ty, index, length) ==
  LET s == <<ty, "-">>
      seq == t.d[s]
      P == {NthVisible(seq, k) : k \in (index + 1)..(index + length)}
  IN IF length = 0 THEN t
     ELSE [t EXCEPT !.d[s] = [i \in 1..Len(seq) |->
                                IF i \in P THEN [seq[i] EXCEPT !.del = TRUE] ELSE seq[i]],
                    !.dels = @ \cup {<<s, seq[i].id>> : i \in P},
                    !.ch = @ \cup {ty}]

YLength(d, ty) == Len(Visible(d[<<ty, "-">>]))

\* Y.Map.has / Y.Map.get: the value of a key is its last item, unless deleted
YMapHas(d, ty, key) ==
  LET seq == d[<<ty, key>>] IN seq # <<>> /\ ~seq[Len(seq)].del

YMapGet(d, ty, key) == d[<<ty, key>>][Len(d[<<ty, key>>])].val

\* Y.Map.delete(key)
YMapDelete(t, ty, key) ==
  LET s == <<ty, key>>
      seq == t.d[s]
  IN IF ~YMapHas(t.d, ty, key) THEN t
     ELSE [t EXCEPT !.d[s] = [seq EXCEPT ![Len(seq)].del = TRUE],
                    !.dels = @ \cup {<<s, seq[Len(seq)].id>>},
                    !.ch = @ \cup {ty}]

\* Y.Map.set(key, val): a new item after the key's last one, which it deletes
YMapSet(t, r, ty, key, val) ==
  NewItemAfter(YMapDelete(t, ty, key), r, <<ty, key>>, Len(t.d[<<ty, key>>]), val)

RECURSIVE YMapClearKeys(_, _, _)
YMapClearKeys(t, ty, keys) ==
  IF keys = {} THEN t
  ELSE LET k == CHOOSE x \in keys : TRUE
       IN YMapClearKeys(YMapDelete(t, ty, k), ty, keys \ {k})

\* Y.Map.clear()
YMapClear(t, ty) == YMapClearKeys(t, ty, KeysOf(ty))

(* Yjs: merging a remote item (Item.integrate) *)

IsMapSlot(s) == s[1] \in MapTypes

RECURSIVE Scan(_, _, _, _, _, _, _)
Scan(seq, it, o, left, conflicting, before, stop) ==
  IF o >= stop \/ o > Len(seq) THEN left
  ELSE LET oi == seq[o]
           before2 == before \cup {oi.id}
           conf2 == conflicting \cup {oi.id}
       IN IF oi.origin = it.origin
          THEN IF oi.id[1] < it.id[1]
               THEN Scan(seq, it, o + 1, o, {}, before2, stop)
               ELSE IF oi.right = it.right
                    THEN left
                    ELSE Scan(seq, it, o + 1, left, conf2, before2, stop)
          ELSE IF oi.origin # None /\ oi.origin \in before2
               THEN IF oi.origin \notin conf2
                    THEN Scan(seq, it, o + 1, o, {}, before2, stop)
                    ELSE Scan(seq, it, o + 1, left, conf2, before2, stop)
               ELSE left

\* a merge that ignores the origins and puts every received item last
IntegrateAppend(d, s, it) == [d EXCEPT ![s] = Append(d[s], it)]

Integrate(d, s, it) ==
  LET seq == d[s]
      l0 == IF it.origin = None THEN 0 ELSE Pos(seq, it.origin)
      r0 == IF it.right = None THEN Len(seq) + 1 ELSE Pos(seq, it.right)
      left == Scan(seq, it, l0 + 1, l0, {}, {}, r0)
      placed == InsertAt(seq, left + 1, it)
      settled ==
        IF ~IsMapSlot(s) THEN placed
        ELSE IF left + 1 < Len(placed)
             THEN [placed EXCEPT ![left + 1].del = TRUE]
             ELSE IF left >= 1 THEN [placed EXCEPT ![left].del = TRUE] ELSE placed
  IN [d EXCEPT ![s] = settled]

RECURSIVE IntegrateAll(_, _, _)
IntegrateAll(d, items, i) ==
  IF i > Len(items) THEN d
  ELSE IntegrateAll(Integrate(d, items[i].slot, items[i].item), items, i + 1)

\* a merge that drops the deletions a received update carries
ApplyNoDeletions(d, dels) == d

ApplyDeleteSet(d, dels) ==
  [s \in Slots |->
     [i \in 1..Len(d[s]) |->
        IF <<s, d[s][i].id>> \in dels THEN [d[s][i] EXCEPT !.del = TRUE] ELSE d[s][i]]]

\* the shared types a merged update changes
TouchedBy(d, u) ==
  {u.items[i].slot[1] : i \in 1..Len(u.items)}
    \cup {x[1][1] : x \in {y \in u.dels : \E i \in 1..Len(d[y[1]]) :
                                             d[y[1]][i].id = y[2] /\ ~d[y[1]][i].del}}

\* Y.applyUpdate
ApplyUpdate(d, u) == ApplyDeleteSet(IntegrateAll(d, u.items, 1), u.dels)

----------------------------------------------------------------------------
(* The store: what syncData publishes *)

Range(seq) == {seq[i] : i \in 1..Len(seq)}

RECURSIVE Dedupe(_, _)
Dedupe(seq, acc) ==
  IF seq = <<>> THEN acc
  ELSE Dedupe(Tail(seq), IF Head(seq) \in Range(acc) THEN acc ELSE Append(acc, Head(seq)))

\* Array.indexOf, and the value orderMap gives an id (both 0-based)
IndexOf(seq, x) == IF x \in Range(seq) THEN (CHOOSE i \in 1..Len(seq) : seq[i] = x) - 1 ELSE -1

Or2(a, b) == IF a # Undef THEN a ELSE b

PaletteColor(order) == USER_COLORS[(order % Len(USER_COLORS)) + 1]

MetaOf(item) == [id |-> item.id, x |-> item.x, y |-> item.y, width |-> item.width, height |-> item.height]

WithMeta(item, meta) ==
  [item EXCEPT !.id = meta.id, !.x = meta.x, !.y = meta.y, !.width = meta.width, !.height = meta.height]

MergedItem(d, ty, metaTy, id) ==
  IF YMapHas(d, metaTy, id) THEN WithMeta(YMapGet(d, ty, id), YMapGet(d, metaTy, id)) ELSE YMapGet(d, ty, id)

ResolvedNote(d, id) ==
  LET note == YMapGet(d, "notes", id)
      orderIds == Dedupe(ToArray(d[<<"user_order", "-">>]), <<>>)
      hasOwner == note.authorId # Undef /\ YMapHas(d, "users", note.authorId)
      owner == YMapGet(d, "users", note.authorId)
      inOrder == note.authorId # Undef /\ note.authorId \in Range(orderIds)
      resolvedColor ==
        IF inOrder THEN PaletteColor(IndexOf(orderIds, note.authorId))
        ELSE IF hasOwner THEN PaletteColor(owner.order)
        ELSE Or2(note.authorColor, note.color)
      resolvedName == IF hasOwner THEN Or2(owner.name, note.authorName) ELSE note.authorName
      base == [note EXCEPT !.color = resolvedColor, !.authorColor = resolvedColor,
                           !.authorName = resolvedName]
  IN IF YMapHas(d, "notes_meta", id) THEN WithMeta(base, YMapGet(d, "notes_meta", id)) ELSE base

SyncData(d) ==
  [paths |-> ToArray(d[<<"paths", "-">>]),
   notes |-> {ResolvedNote(d, id) : id \in {k \in NoteIds : YMapHas(d, "notes", k)}},
   images |-> {MergedItem(d, "images", "images_meta", id) :
                 id \in {k \in ImageIds : YMapHas(d, "images", k)}},
   files |-> {MergedItem(d, "files", "files_meta", id) :
                id \in {k \in FileIds : YMapHas(d, "files", k)}}]

\* yPaths.observe(syncData) ... yFileMeta.observe(syncData)
Observed ==
  {"paths", "notes", "notes_meta", "users", "user_order", "images", "images_meta",
   "files", "files_meta"}

\* The end of a transaction: the update event (if anything changed) and the observers.
Transact(rs, t) ==
  LET fires == t.ch \cap Observed # {}
  IN [rs EXCEPT !.d = t.d,
                !.c = t.c,
                !.out = IF t.items # <<>> \/ t.dels # {}
                        THEN Append(@, [items |-> t.items, dels |-> t.dels]) ELSE @,
                !.p = IF fires THEN SyncData(t.d) ELSE @,
                !.tr = IF fires THEN Append(@, SyncData(t.d)) ELSE @]

----------------------------------------------------------------------------
(* The store: the identity ledger *)

RECURSIVE RecolourNotes(_, _, _)
RecolourNotes(rs, r, ids) ==
  IF ids = {} THEN rs
  ELSE LET id == CHOOSE x \in ids : TRUE
           has == YMapHas(rs.d, "notes", id)
           note == YMapGet(rs.d, "notes", id)
           stale == /\ has
                    /\ note.authorId = rs.u.id
                    /\ \/ note.color # rs.u.color
                       \/ note.authorColor # rs.u.color
                       \/ note.authorName # rs.u.name
           next == IF stale
                   THEN Transact(rs, YMapSet(Begin(rs), r, "notes", id,
                           [note EXCEPT !.color = rs.u.color, !.authorColor = rs.u.color,
                                        !.authorName = rs.u.name]))
                   ELSE rs
       IN RecolourNotes(next, r, ids \ {id})

EnsureLocalUser(rs, r) ==
  LET userId == UserId(r)
      rs1 == IF userId \in Range(ToArray(rs.d[<<"user_order", "-">>])) THEN rs
             ELSE Transact(rs, YArrayPush(Begin(rs), r, "user_order", userId))
      order == IndexOf(Dedupe(ToArray(rs1.d[<<"user_order", "-">>]), <<>>), userId)
      color == PaletteColor(order)
      has == YMapHas(rs1.d, "users", userId)
      existing == YMapGet(rs1.d, "users", userId)
      entry == [name |-> UserName(r), color |-> color, order |-> order]
      rs2 == IF has /\ existing = entry THEN rs1
             ELSE Transact(rs1, YMapSet(Begin(rs1), r, "users", userId, entry))
      rs3 == [rs2 EXCEPT !.u = [id |-> userId, name |-> UserName(r), color |-> color,
                                order |-> order]]
  IN RecolourNotes(rs3, r, NoteIds)

----------------------------------------------------------------------------
(* The store: the mutation helpers *)

AddPathOp(rs, r, path) == Transact(rs, YArrayPush(Begin(rs), r, "paths", path))

RECURSIVE SortDesc(_)
SortDesc(S) ==
  IF S = {} THEN <<>>
  ELSE LET m == CHOOSE x \in S : \A y \in S : y <= x
       IN <<m>> \o SortDesc(S \ {m})

RECURSIVE DeleteEach(_, _, _)
DeleteEach(t, idx, k) ==
  IF k > Len(idx) THEN t
  ELSE DeleteEach(YArrayDelete(t, "paths", idx[k], 1), idx, k + 1)

\* a deletePaths that stops after the first stroke it finds
DeletePathsFirstMatch(rs, r, pathIds) ==
  LET current == ToArray(rs.d[<<"paths", "-">>])
      hits == {j \in 1..Len(current) : current[j].id \in pathIds}
      first == {j \in hits : \A k \in hits : j <= k}
  IN Transact(rs, DeleteEach(Begin(rs), SortDesc({j - 1 : j \in first}), 1))

DeletePathsOp(rs, r, pathIds) ==
  LET current == ToArray(rs.d[<<"paths", "-">>])
      indexesToDelete == {i - 1 : i \in {j \in 1..Len(current) : current[j].id \in pathIds}}
  IN Transact(rs, DeleteEach(Begin(rs), SortDesc(indexesToDelete), 1))

\* new Map(updatedPaths.map(p => [p.id, p])).get(id): the last entry wins
UpdateMapHas(updatedPaths, id) == \E i \in 1..Len(updatedPaths) : updatedPaths[i].id = id

UpdateMapGet(updatedPaths, id) ==
  updatedPaths[CHOOSE i \in 1..Len(updatedPaths) :
                 /\ updatedPaths[i].id = id
                 /\ \A j \in (i + 1)..Len(updatedPaths) : updatedPaths[j].id # id]

RECURSIVE ReplaceEach(_, _, _, _, _)
ReplaceEach(t, r, current, updatedPaths, i) ==
  IF i > Len(current) THEN t
  ELSE IF UpdateMapHas(updatedPaths, current[i].id)
       THEN ReplaceEach(
              YArrayInsert(YArrayDelete(t, "paths", i - 1, 1), r, "paths", i - 1,
                           UpdateMapGet(updatedPaths, current[i].id)),
              r, current, updatedPaths, i + 1)
       ELSE ReplaceEach(t, r, current, updatedPaths, i + 1)

\* an updatePaths without doc.transact: every delete and insert is a transaction
RECURSIVE ReplaceEachAlone(_, _, _, _, _)
ReplaceEachAlone(rs, r, current, updatedPaths, i) ==
  IF i > Len(current) THEN rs
  ELSE IF UpdateMapHas(updatedPaths, current[i].id)
       THEN LET rs1 == Transact(rs, YArrayDelete(Begin(rs), "paths", i - 1, 1))
                rs2 == Transact(rs1, YArrayInsert(Begin(rs1), r, "paths", i - 1,
                                                  UpdateMapGet(updatedPaths, current[i].id)))
            IN ReplaceEachAlone(rs2, r, current, updatedPaths, i + 1)
       ELSE ReplaceEachAlone(rs, r, current, updatedPaths, i + 1)

UpdatePathsUntransacted(rs, r, updatedPaths) ==
  ReplaceEachAlone(rs, r, ToArray(rs.d[<<"paths", "-">>]), updatedPaths, 1)

UpdatePathsOp(rs, r, updatedPaths) ==
  Transact(rs, ReplaceEach(Begin(rs), r, ToArray(rs.d[<<"paths", "-">>]), updatedPaths, 1))

\* a clearBoard without doc.transact: every collection is cleared on its own
ClearBoardUntransacted(rs, r) ==
  LET rs1 == Transact(rs, YArrayDelete(Begin(rs), "paths", 0, YLength(rs.d, "paths")))
      rs2 == Transact(rs1, YMapClear(Begin(rs1), "notes"))
      rs3 == Transact(rs2, YMapClear(Begin(rs2), "notes_meta"))
      rs4 == Transact(rs3, YMapClear(Begin(rs3), "images"))
      rs5 == Transact(rs4, YMapClear(Begin(rs4), "images_meta"))
      rs6 == Transact(rs5, YMapClear(Begin(rs5), "files"))
  IN Transact(rs6, YMapClear(Begin(rs6), "files_meta"))

ClearBoardOp(rs, r) ==
  LET t0 == Begin(rs)
      t1 == YArrayDelete(t0, "paths", 0, YLength(t0.d, "paths"))
      t2 == YMapClear(t1, "notes")
      t3 == YMapClear(t2, "notes_meta")
      t4 == YMapClear(t3, "images")
      t5 == YMapClear(t4, "images_meta")
      t6 == YMapClear(t5, "files")
  IN Transact(rs, YMapClear(t6, "files_meta"))

AddNoteOp(rs, r, note) ==
  LET fallbackColor == Or2(note.color, USER_COLORS[1])
      nextNote == [note EXCEPT
                     !.color = Or2(rs.u.color, fallbackColor),
                     !.authorId = Or2(rs.u.id, Or2(UserId(r), note.authorId)),
                     !.authorName = Or2(rs.u.name, Or2(note.authorName, UserName(r))),
                     !.authorColor = Or2(rs.u.color, Or2(note.authorColor, fallbackColor))]
      rs1 == Transact(rs, YMapSet(Begin(rs), r, "notes", note.id, nextNote))
  IN Transact(rs1, YMapSet(Begin(rs1), r, "notes_meta", note.id, MetaOf(note)))

\* the update of the position and size shared by updateNote, updateImage and updateFile
SetMetaIfChanged(rs, r, metaTy, item) ==
  IF YMapHas(rs.d, metaTy, item.id) /\ YMapGet(rs.d, metaTy, item.id) = MetaOf(item)
  THEN rs
  ELSE Transact(rs, YMapSet(Begin(rs), r, metaTy, item.id, MetaOf(item)))

\* an updateNote that adds the payload's text to the text the note has
UpdateNoteAppending(rs, r, note) ==
  LET rs1 == SetMetaIfChanged(rs, r, "notes_meta", note)
      has == YMapHas(rs1.d, "notes", note.id)
      existing == YMapGet(rs1.d, "notes", note.id)
  IN IF ~has
     THEN Transact(rs1, YMapSet(Begin(rs1), r, "notes", note.id, note))
     ELSE Transact(rs1, YMapSet(Begin(rs1), r, "notes", note.id,
                                [existing EXCEPT !.text = existing.text \o note.text]))

\* an updateNote that writes the position and size only
UpdateNoteMetaOnly(rs, r, note) == SetMetaIfChanged(rs, r, "notes_meta", note)

UpdateNoteOp(rs, r, note) ==
  LET rs1 == SetMetaIfChanged(rs, r, "notes_meta", note)
      has == YMapHas(rs1.d, "notes", note.id)
      existing == YMapGet(rs1.d, "notes", note.id)
  IN IF ~has
     THEN Transact(rs1, YMapSet(Begin(rs1), r, "notes", note.id, note))
     ELSE IF existing.text # note.text \/ existing.color # note.color
          THEN Transact(rs1, YMapSet(Begin(rs1), r, "notes", note.id,
                 [existing EXCEPT !.text = note.text,
                                  !.color = Or2(existing.color, note.color),
                                  !.authorId = Or2(existing.authorId, note.authorId),
                                  !.authorName = Or2(existing.authorName, note.authorName),
                                  !.authorColor = Or2(existing.authorColor, note.authorColor)]))
          ELSE rs1

DeleteNoteOp(rs, r, id) ==
  LET rs1 == Transact(rs, YMapDelete(Begin(rs), "notes", id))
  IN Transact(rs1, YMapDelete(Begin(rs1), "notes_meta", id))

AddImageOp(rs, r, img) ==
  LET rs1 == Transact(rs, YMapSet(Begin(rs), r, "images", img.id, img))
  IN Transact(rs1, YMapSet(Begin(rs1), r, "images_meta", img.id, MetaOf(img)))

\* an updateImage that stores the payload whole
UpdateImageStoring(rs, r, img) ==
  Transact(rs, YMapSet(Begin(rs), r, "images", img.id, img))

UpdateImageOp(rs, r, img) ==
  LET rs1 == SetMetaIfChanged(rs, r, "images_meta", img)
  IN IF ~YMapHas(rs1.d, "images", img.id)
     THEN Transact(rs1, YMapSet(Begin(rs1), r, "images", img.id, img))
     ELSE rs1

DeleteImageOp(rs, r, id) ==
  LET rs1 == Transact(rs, YMapDelete(Begin(rs), "images", id))
  IN Transact(rs1, YMapDelete(Begin(rs1), "images_meta", id))

AddFileOp(rs, r, file) ==
  LET rs1 == Transact(rs, YMapSet(Begin(rs), r, "files", file.id, file))
  IN Transact(rs1, YMapSet(Begin(rs1), r, "files_meta", file.id, MetaOf(file)))

UpdateFileOp(rs, r, file) == SetMetaIfChanged(rs, r, "files_meta", file)

DeleteFileOp(rs, r, id) ==
  LET rs1 == Transact(rs, YMapDelete(Begin(rs), "files", id))
  IN Transact(rs1, YMapDelete(Begin(rs1), "files_meta", id))

----------------------------------------------------------------------------
(* Payloads *)

\* the points of a new stroke, and the same stroke moved by dx
PathAt(id, dx) ==
  [id |-> id, points |-> << <<dx, 0>>, <<10 + dx, 0>> >>, color |-> "#000000", width |-> 4]

PathOrder == <<"p1", "p2">>

\* the strokes of a selection moved by dx (handlePointerMove, mode 'move')
MovedPaths(ids, dx) ==
  LET InIds(id) == id \in ids
      sel == SelectSeq(PathOrder, InIds)
  IN [i \in 1..Len(sel) |-> PathAt(sel[i], dx)]

\* the note handlePointerDown creates with the NOTE tool
NewNote(id) ==
  [id |-> id, x |-> 100, y |-> 100, text |-> "", color |-> "#fef3c7", width |-> 200,
   height |-> 50, authorId |-> Undef, authorName |-> Undef, authorColor |-> Undef]

\* the image and the file handleFileUpload creates
NewImage(id) ==
  [id |-> id, x |-> 100, y |-> 100, src |-> "data:image/png", width |-> 300, height |-> 300,
   title |-> "a.png"]

NewFile(id) ==
  [id |-> id, x |-> 100, y |-> 100, fileName |-> "a.pdf", fileType |-> "application/pdf",
   data |-> "data:application/pdf", width |-> 220, height |-> 140]

\* what a participant types, and where it drags to
TextOf(r) == IF r = 1 THEN "a" ELSE "b"

DragX(r) == 100 + 20 * r

\* the scrollHeight of the textarea: one line of text, or several
ContentHeights == {20, 60}

\* a note as a caller that has not seen the latest snapshot holds it
StaleNote(r, id) == [NewNote(id) EXCEPT !.x = DragX(r), !.text = TextOf(r)]

----------------------------------------------------------------------------
(* The state machine *)

\* a participant's Y.Doc, clock, localUserRef and published React state
RS(r) == [d |-> doc[r], c |-> clock[r], u |-> localUser[r], p |-> pub[r],
          out |-> <<>>, tr |-> <<>>]

Blank == [d |-> EmptyDoc, c |-> 1, u |-> [id |-> Undef, name |-> Undef, color |-> Undef, order |-> 0],
          p |-> SyncData(EmptyDoc), out |-> <<>>, tr |-> <<>>]

\* the updates of one store call, as they travel: with the call they come from and
\* the updates their sender had merged
Tagged(out, op, n, arg, dep) ==
  [i \in 1..Len(out) |->
     [op |-> op, n |-> n, arg |-> arg, dep |-> dep, items |-> out[i].items, dels |-> out[i].dels]]

RECURSIVE MergeUpdates(_, _)
MergeUpdates(out, acc) ==
  IF out = <<>> THEN acc
  ELSE MergeUpdates(Tail(out), [items |-> acc.items \o Head(out).items,
                                dels |-> acc.dels \cup Head(out).dels])

\* The canvas engine of one participant after mount: the tool App starts with,
\* the drawing refs, the interaction state and the cursor of the presence record. A nullable piece of state is a
\* sequence: <<>> for null, <<v>> for the value v.
IdleCanvas ==
  [tool |-> "PEN", isDrawing |-> FALSE, currentPathPoints |-> <<>>, captured |-> FALSE,
   dragItem |-> <<>>, resizeItem |-> <<>>, selectedPathIds |-> <<>>,
   selectionRect |-> <<>>, pathTransform |-> <<>>, cursor |-> <<>>]

\* The WebRTC version of the hook before its effect has run with a room:
\* webrtcConns is the number of peer connections of the provider, states the
\* size of awareness.getStates(), authTimeoutId the timer (pending or not),
\* onUpdate whether awarenessUpdateHandler is registered; isAuthenticating and
\* connectionError ("": null) are that hook's state.
NoRtc ==
  [joined |-> FALSE, passcode |-> "", isCreator |-> FALSE, webrtcConns |-> 0, states |-> 0,
   authTimeoutId |-> FALSE, onUpdate |-> FALSE, isAuthenticating |-> TRUE,
   connectionError |-> ""]

\* The connection of one participant after the effect ran once with a room and
\* the provider reported 'connected':
\* providers and documents are numbered in the order the effect made them; live
\* and docs hold the ones not destroyed, presence the providers whose awareness
\* carries a 'user' entry, providerRef and ydocRef what the refs point at (0: null).
\* effect is the pair the cleanup function of the last effect run closes over (0: the run
\* returned no cleanup), which is the run whose isActive is true. roomId is the
\* room of App's session ("": no session, the login screen), loginError what
\* the login screen shows; connectionError ("": null), isConnected and
\* isAuthenticating are the hook's state, didConnect and authTimeout (the
\* timer is pending) the variables of the effect run; remoteUsers are the
\* peers the hook reports.
FirstConnection(r) ==
  [roomId |-> "room", passcode |-> "", made |-> 1, live |-> {1}, docs |-> {1},
   presence |-> {1}, providerRef |-> 1, ydocRef |-> 1, effect |-> 1,
   loginError |-> "", connectionError |-> "", isConnected |-> TRUE,
   isAuthenticating |-> FALSE, didConnect |-> TRUE, authTimeout |-> FALSE,
   remoteUsers |-> {}, rtc |-> NoRtc]

\* The connection of one participant after mount, at the login screen: the
\* effect ran without a room
AtLogin ==
  [roomId |-> "", passcode |-> "", made |-> 0, live |-> {}, docs |-> {},
   presence |-> {}, providerRef |-> 0, ydocRef |-> 0, effect |-> 0,
   loginError |-> "", connectionError |-> "", isConnected |-> FALSE,
   isAuthenticating |-> FALSE, didConnect |-> FALSE, authTimeout |-> FALSE,
   remoteUsers |-> {}, rtc |-> NoRtc]

\* The effect runs ensureLocalUser() on the fresh Y.Doc, then syncData(), before
\* provider.connect(): what it wrote is sent as one update when the socket syncs.
Init ==
  /\ doc = [r \in Rep |-> EnsureLocalUser(Blank, r).d]
  /\ clock = [r \in Rep |-> EnsureLocalUser(Blank, r).c]
  /\ localUser = [r \in Rep |-> EnsureLocalUser(Blank, r).u]
  /\ pub = [r \in Rep |-> SyncData(EnsureLocalUser(Blank, r).d)]
  /\ log = [r \in Rep |->
              Tagged(<<MergeUpdates(EnsureLocalUser(Blank, r).out, [items |-> <<>>, dels |-> {}])>>,
                     "ensureLocalUser", 0, UserId(r), [s \in Rep |-> 0])]
  /\ applied = [r \in Rep |-> [s \in Rep |-> IF s = r THEN 1 ELSE 0]]
  /\ ui = [r \in Rep |-> IdleCanvas]
  /\ conn = [r \in Rep |-> FirstConnection(r)]

\* a store call of participant r ends in the state rs; budget is the number of
\* store calls still to come
Install(r, rs, op, arg) ==
  /\ budget' = budget - 1
  /\ doc' = [doc EXCEPT ![r] = rs.d]
  /\ clock' = [clock EXCEPT ![r] = rs.c]
  /\ localUser' = [localUser EXCEPT ![r] = rs.u]
  /\ pub' = [pub EXCEPT ![r] = rs.p]
  /\ log' = [log EXCEPT ![r] = @ \o Tagged(rs.out, op, Len(log[r]), arg, applied[r])]
  /\ applied' = [applied EXCEPT ![r][r] = Len(log'[r])]
  /\ UNCHANGED conn

AddPath(r, path) ==
  /\ budget > 0
  /\ Install(r, AddPathOp(RS(r), r, path), "addPath", path.id)
  /\ UNCHANGED ui

DeletePaths(r, pathIds) ==
  /\ budget > 0
  /\ Install(r, DeletePathsOp(RS(r), r, pathIds), "deletePaths", pathIds)
  /\ UNCHANGED ui

UpdatePaths(r, updatedPaths) ==
  /\ budget > 0
  /\ Install(r, UpdatePathsOp(RS(r), r, updatedPaths), "updatePaths",
             {updatedPaths[i].id : i \in 1..Len(updatedPaths)})
  /\ UNCHANGED ui

ClearBoard(r) ==
  /\ budget > 0
  /\ Install(r, ClearBoardOp(RS(r), r), "clearBoard", "-")
  /\ UNCHANGED ui

AddNote(r, note) ==
  /\ budget > 0
  /\ Install(r, AddNoteOp(RS(r), r, note), "addNote", note.id)
  /\ UNCHANGED ui

UpdateNote(r, note) ==
  /\ budget > 0
  /\ Install(r, UpdateNoteOp(RS(r), r, note), "updateNote", note)
  /\ UNCHANGED ui

DeleteNote(r, id) ==
  /\ budget > 0
  /\ Install(r, DeleteNoteOp(RS(r), r, id), "deleteNote", id)
  /\ UNCHANGED ui

AddImage(r, img) ==
  /\ budget > 0
  /\ Install(r, AddImageOp(RS(r), r, img), "addImage", img.id)
  /\ UNCHANGED ui

UpdateImage(r, img) ==
  /\ budget > 0
  /\ Install(r, UpdateImageOp(RS(r), r, img), "updateImage", img)
  /\ UNCHANGED ui

DeleteImage(r, id) ==
  /\ budget > 0
  /\ Install(r, DeleteImageOp(RS(r), r, id), "deleteImage", id)
  /\ UNCHANGED ui

AddFile(r, file) ==
  /\ budget > 0
  /\ Install(r, AddFileOp(RS(r), r, file), "addFile", file.id)
  /\ UNCHANGED ui

UpdateFile(r, file) ==
  /\ budget > 0
  /\ Install(r, UpdateFileOp(RS(r), r, file), "updateFile", file)
  /\ UNCHANGED ui

DeleteFile(r, id) ==
  /\ budget > 0
  /\ Install(r, DeleteFileOp(RS(r), r, id), "deleteFile", id)
  /\ UNCHANGED ui

\* handlePointerMove with a dragItem: the item of the rendered snapshot, moved
DragNote(r, id, x) ==
  \E item \in pub[r].notes :
    /\ budget > 0
    /\ item.id = id
    /\ Install(r, UpdateNoteOp(RS(r), r, [item EXCEPT !.x = x]), "dragNote", [item EXCEPT !.x = x])
    /\ UNCHANGED ui

\* updateNoteText: the item of the rendered snapshot with the typed text
EditNoteText(r, id, text, contentHeight) ==
  \E item \in pub[r].notes :
    /\ budget > 0
    /\ item.id = id
    /\ LET nextHeight == IF contentHeight # 0 /\ contentHeight + 16 > item.height
                         THEN contentHeight + 16 ELSE item.height
           note == [item EXCEPT !.text = text, !.height = nextHeight]
       IN /\ Install(r, UpdateNoteOp(RS(r), r, note), "editNoteText", note)
          /\ UNCHANGED ui

\* provider.on('synced'): the ledger is checked again after a (re)connection
Synced(r) ==
  /\ budget > 0
  /\ Install(r, EnsureLocalUser(RS(r), r), "synced", UserId(r))
  /\ UNCHANGED ui

\* participant r merges the next update of participant s
Deliver(r, s) ==
  /\ s # r
  /\ applied[r][s] < Len(log[s])
  /\ LET u == log[s][applied[r][s] + 1]
         d2 == ApplyUpdate(doc[r], u)
     IN /\ \A q \in Rep \ {r} : u.dep[q] <= applied[r][q]
        /\ doc' = [doc EXCEPT ![r] = d2]
        /\ pub' = [pub EXCEPT ![r] = IF TouchedBy(doc[r], u) \cap Observed # {}
                                      THEN SyncData(d2) ELSE @]
        /\ applied' = [applied EXCEPT ![r][s] = @ + 1]
  /\ UNCHANGED <<clock, localUser, log, budget, ui, conn>>

----------------------------------------------------------------------------
(* The canvas engine (Whiteboard.tsx). A point is <<x, y>>; coordinates are
   integers, so every comparison of distances below is exact. *)

Min(a, b) == IF a < b THEN a ELSE b

Max(a, b) == IF a > b THEN a ELSE b

Abs(a) == IF a < 0 THEN -a ELSE a

dist2(v, w) == (v[1] - w[1]) * (v[1] - w[1]) + (v[2] - w[2]) * (v[2] - w[2])

\* distToSegment(p, v, w), squared, as the fraction <<numerator, denominator>>:
\* t is clamped to [0, 1], and between the two |p - proj|^2 = |p - v|^2 - dot^2 / l2
distToSegment(p, v, w) ==
  LET l2 == dist2(v, w)
      dot == (p[1] - v[1]) * (w[1] - v[1]) + (p[2] - v[2]) * (w[2] - v[2])
  IN IF l2 = 0 THEN <<dist2(p, v), 1>>
     ELSE IF dot <= 0 THEN <<dist2(p, v), 1>>
     ELSE IF dot >= l2 THEN <<dist2(p, w), 1>>
     ELSE <<dist2(p, v) * l2 - dot * dot, l2>>

\* dist < d, dist <= d and dist1 < dist2 on the squares (Math.sqrt is monotonic)
DistBelow(dist, d) == dist[1] < d * d * dist[2]

DistAtMost(dist, d) == dist[1] <= d * d * dist[2]

DistLess(a, b) == a[1] * b[2] < b[1] * a[2]

getPathBounds(path) ==
  LET xs == {path.points[i][1] : i \in 1..Len(path.points)}
      ys == {path.points[i][2] : i \in 1..Len(path.points)}
      minX == CHOOSE m \in xs : \A v \in xs : m <= v
      maxX == CHOOSE m \in xs : \A v \in xs : m >= v
      minY == CHOOSE m \in ys : \A v \in ys : m <= v
      maxY == CHOOSE m \in ys : \A v \in ys : m >= v
  IN IF path.points = <<>> THEN [x |-> 0, y |-> 0, width |-> 0, height |-> 0]
     ELSE [x |-> minX, y |-> minY, width |-> maxX - minX, height |-> maxY - minY]

\* a box for no strokes as well: the empty one at the origin
getBoundsFromPathsOfNone(pathsToMeasure) ==
  LET bs == {getPathBounds(pathsToMeasure[i]) : i \in 1..Len(pathsToMeasure)}
      minX == CHOOSE m \in {b.x : b \in bs} : \A b \in bs : m <= b.x
      minY == CHOOSE m \in {b.y : b \in bs} : \A b \in bs : m <= b.y
      maxX == CHOOSE m \in {b.x + b.width : b \in bs} : \A b \in bs : m >= b.x + b.width
      maxY == CHOOSE m \in {b.y + b.height : b \in bs} : \A b \in bs : m >= b.y + b.height
  IN IF pathsToMeasure = <<>> THEN <<[x |-> 0, y |-> 0, width |-> 0, height |-> 0]>>
     ELSE <<[x |-> minX, y |-> minY, width |-> maxX - minX, height |-> maxY - minY]>>

\* null (<<>>) for no strokes, else the box around the boxes
getBoundsFromPaths(pathsToMeasure) ==
  LET bs == {getPathBounds(pathsToMeasure[i]) : i \in 1..Len(pathsToMeasure)}
      minX == CHOOSE m \in {b.x : b \in bs} : \A b \in bs : m <= b.x
      minY == CHOOSE m \in {b.y : b \in bs} : \A b \in bs : m <= b.y
      maxX == CHOOSE m \in {b.x + b.width : b \in bs} : \A b \in bs : m >= b.x + b.width
      maxY == CHOOSE m \in {b.y + b.height : b \in bs} : \A b \in bs : m >= b.y + b.height
  IN IF pathsToMeasure = <<>> THEN <<>>
     ELSE <<[x |-> minX, y |-> minY, width |-> maxX - minX, height |-> maxY - minY]>>

normalizeRect(start, end) ==
  [x |-> Min(start[1], end[1]), y |-> Min(start[2], end[2]),
   width |-> Abs(end[1] - start[1]), height |-> Abs(end[2] - start[2])]

rectsIntersect(a, b) ==
  /\ a.x < b.x + b.width
  /\ a.x + a.width > b.x
  /\ a.y < b.y + b.height
  /\ a.y + a.height > b.y

\* the segments of the rendered strokes, as <<stroke index, segment index>>
Segments(paths) ==
  UNION {{<<j, i>> : i \in 1..(Len(paths[j].points) - 1)} : j \in 1..Len(paths)}

SegmentDist(paths, pos, sg) ==
  distToSegment(pos, paths[sg[1]].points[sg[2]], paths[sg[1]].points[sg[2] + 1])

\* getPathAtPoint(pos, threshold = 8): the stroke of the closest segment within the
\* threshold, the first one met among equally close ones; <<>> for null
getPathAtPoint(paths, pos) ==
  LET near == {sg \in Segments(paths) : DistAtMost(SegmentDist(paths, pos, sg), 8)}
      Before(a, b) == a[1] < b[1] \/ (a[1] = b[1] /\ a[2] < b[2])
      closest == CHOOSE a \in near :
                   \A b \in near \ {a} :
                     \/ DistLess(SegmentDist(paths, pos, a), SegmentDist(paths, pos, b))
                     \/ /\ ~DistLess(SegmentDist(paths, pos, b), SegmentDist(paths, pos, a))
                        /\ Before(a, b)
  IN IF near = {} THEN <<>> ELSE <<paths[closest[1]]>>

ERASER_RADIUS == 20

\* an eraseAt that does not look at the last segment of a stroke
pathsToDeleteButLast(paths, pos) ==
  {paths[j].id : j \in {k \in 1..Len(paths) :
      \E i \in 1..(Len(paths[k].points) - 2) :
        DistBelow(distToSegment(pos, paths[k].points[i], paths[k].points[i + 1]), ERASER_RADIUS)}}

\* eraseAt: the ids of the rendered strokes with a segment closer than the radius
pathsToDelete(paths, pos) ==
  {paths[j].id : j \in {k \in 1..Len(paths) :
      \E i \in 1..(Len(paths[k].points) - 1) :
        DistBelow(distToSegment(pos, paths[k].points[i], paths[k].points[i + 1]), ERASER_RADIUS)}}

\* pos is on the item (the box an image without a height gets is 200 high)
OnItem(pos, item, height) ==
  /\ pos[1] >= item.x
  /\ pos[1] <= item.x + item.width
  /\ pos[2] >= item.y
  /\ pos[2] <= item.y + height

\* the rendered notes, images and files under pos, as <<kind, id>>
ItemsAt(shown, pos) ==
  {<<"note", m.id>> : m \in {n \in shown.notes : OnItem(pos, n, n.height)}}
    \cup {<<"image", m.id>> : m \in {n \in shown.images :
                                       OnItem(pos, n, IF n.height = 0 THEN 200 ELSE n.height)}}
    \cup {<<"file", m.id>> : m \in {n \in shown.files : OnItem(pos, n, n.height)}}

KindRank(kind) == CASE kind = "note" -> 1 [] kind = "image" -> 2 [] OTHER -> 3

DeleteItemOp(rs, r, kind, id) ==
  CASE kind = "note" -> DeleteNoteOp(rs, r, id)
    [] kind = "image" -> DeleteImageOp(rs, r, id)
    [] OTHER -> DeleteFileOp(rs, r, id)

\* onNoteDelete, onImageDelete, onFileDelete for each item under pos: the notes
\* first, then the images, then the files, one store call after another
RECURSIVE DeleteItems(_, _, _)
DeleteItems(rs, r, items) ==
  IF items = {} THEN rs
  ELSE LET it == CHOOSE x \in items : \A y \in items : KindRank(x[1]) <= KindRank(y[1])
       IN DeleteItems(DeleteItemOp(rs, r, it[1], it[2]), r, items \ {it})

\* onPathsDelete(pathsToDelete), if there is a stroke to delete
ErasePaths(rs, r, ids) == IF ids # {} THEN DeletePathsOp(rs, r, ids) ELSE rs

\* an eraseAt that looks at the strokes only
eraseAtStrokesOnly(rs, r, shown, pos) ==
  ErasePaths(rs, r, pathsToDelete(shown.paths, pos))

eraseAt(rs, r, shown, pos) ==
  DeleteItems(ErasePaths(rs, r, pathsToDelete(shown.paths, pos)), r, ItemsAt(shown, pos))

isSelectTool(tool) == tool \in {"SELECT", "IMAGE"}

isPenOrEraser(tool) == tool \in {"PEN", "ERASER"}

\* PEN_STYLES[0], the pen App starts with
penStyle == [color |-> "#111827", width |-> 3]

\* uuidv4() gives an id no stroke and no note ever had
FreshPathIds ==
  PathIds \ UNION {{doc[q][<<"paths", "-">>][i].val.id : i \in 1..Len(doc[q][<<"paths", "-">>])} :
                     q \in Rep}

FreshNoteIds == {id \in NoteIds : \A q \in Rep : doc[q][<<"notes", id>>] = <<>>}

\* the rendered item of the given kind and id, <<>> if there is none
FindItem(shown, type, id) ==
  LET items == CASE type = "note" -> shown.notes
                 [] type = "image" -> shown.images
                 [] OTHER -> shown.files
  IN IF \E it \in items : it.id = id THEN <<CHOOSE it \in items : it.id = id>> ELSE <<>>

\* onNoteUpdate, onImageUpdate or onFileUpdate, by the kind of the item
UpdateItemOp(rs, r, type, item) ==
  CASE type = "note" -> UpdateNoteOp(rs, r, item)
    [] type = "image" -> UpdateImageOp(rs, r, item)
    [] OTHER -> UpdateFileOp(rs, r, item)

\* paths.find(path => path.id === id) for each selected id, the ones found
selectedPaths(shown, selectedPathIds) ==
  LET Found(id) == \E j \in 1..Len(shown.paths) : shown.paths[j].id = id
      ids == SelectSeq(selectedPathIds, Found)
  IN [k \in 1..Len(ids) |->
        shown.paths[CHOOSE j \in 1..Len(shown.paths) :
                      /\ shown.paths[j].id = ids[k]
                      /\ \A h \in 1..(j - 1) : shown.paths[h].id # ids[k]]]

\* a canvas handler that ends without a store call
NoStoreCall(r, next) ==
  /\ ui' = [ui EXCEPT ![r] = next]
  /\ UNCHANGED <<store, conn>>

\* a canvas handler whose store calls end in the state rs
StoreCall(r, next, rs, op, arg) ==
  /\ ui' = [ui EXCEPT ![r] = next]
  /\ Install(r, rs, op, arg)

\* App's setTool, and the effect on isSelectTool that drops the selection state
SelectTool(r, tool) ==
  /\ budget > 0
  /\ tool # ui[r].tool
  /\ NoStoreCall(r, IF isSelectTool(tool) # isSelectTool(ui[r].tool) /\ ~isSelectTool(tool)
                    THEN [ui[r] EXCEPT !.tool = tool, !.selectedPathIds = <<>>,
                                       !.selectionRect = <<>>, !.pathTransform = <<>>]
                    ELSE [ui[r] EXCEPT !.tool = tool])

\* a grab that always selects the stroke hit alone
GrabStrokeAlone(u, shown, pos, hitPath) ==
  [u EXCEPT !.selectedPathIds = <<hitPath.id>>,
            !.pathTransform = <<[mode |-> "move", start |-> pos,
                                 bounds |-> getBoundsFromPaths(<<hitPath>>)[1],
                                 originPaths |-> <<hitPath>>]>>,
            !.captured = TRUE]

\* handlePointerDown with a select tool on the stroke hitPath: the stroke, or
\* the whole selection if the stroke is part of it, is selected and starts to move
GrabStrokes(u, shown, pos, hitPath) ==
  LET InSelection(path) == \E k \in 1..Len(u.selectedPathIds) : u.selectedPathIds[k] = path.id
      currentSelection == IF InSelection(hitPath) THEN SelectSeq(shown.paths, InSelection)
                          ELSE <<hitPath>>
  IN [u EXCEPT !.selectedPathIds = [k \in 1..Len(currentSelection) |-> currentSelection[k].id],
               !.pathTransform = <<[mode |-> "move", start |-> pos,
                                    bounds |-> getBoundsFromPaths(currentSelection)[1],
                                    originPaths |-> currentSelection]>>,
               !.captured = TRUE]

\* handlePointerDown with a select tool
SelectAt(u, shown, pos, hit) ==
  IF hit # <<>> THEN GrabStrokes(u, shown, pos, hit[1])
  ELSE [u EXCEPT !.selectedPathIds = <<>>, !.selectionRect = <<[start |-> pos, end |-> pos]>>,
                 !.captured = TRUE]

\* the refs after handlePointerDown with the eraser: window.confirm is asked
\* first, and declined, the handler returns at once
AfterEraserDown(u, confirmed) ==
  IF confirmed THEN [u EXCEPT !.captured = TRUE, !.isDrawing = TRUE] ELSE u

EraserDown(r, pos, confirmed) ==
  IF confirmed
  THEN StoreCall(r, AfterEraserDown(ui[r], confirmed), eraseAt(RS(r), r, pub[r], pos),
                 "eraseAt", pos)
  ELSE NoStoreCall(r, AfterEraserDown(ui[r], confirmed))

\* handlePointerDown on the container
PointerDown(r, pos) ==
  /\ budget > 0
  /\ CASE ui[r].tool = "ERASER" ->
            \E confirmed \in BOOLEAN : EraserDown(r, pos, confirmed)
       [] ui[r].tool = "PEN" ->
            NoStoreCall(r, [ui[r] EXCEPT !.captured = TRUE, !.isDrawing = TRUE,
                                         !.currentPathPoints = <<pos>>])
       [] ui[r].tool = "NOTE" ->
            \E id \in FreshNoteIds :
              StoreCall(r, ui[r],
                        AddNoteOp(RS(r), r, [NewNote(id) EXCEPT !.x = pos[1] - 100,
                                                                !.y = pos[2] - 25]),
                        "addNote", id)
       [] OTHER ->
            NoStoreCall(r, SelectAt(ui[r], pub[r], pos, getPathAtPoint(pub[r].paths, pos)))

\* a move that loses the last point of every stroke
MovedByTruncating(originPaths, dx, dy) ==
  [k \in 1..Len(originPaths) |->
     [originPaths[k] EXCEPT !.points =
        [i \in 1..(Len(originPaths[k].points) - 1) |->
           <<originPaths[k].points[i][1] + dx, originPaths[k].points[i][2] + dy>>]]]

\* the strokes of a transform, moved by (dx, dy)
MovedBy(originPaths, dx, dy) ==
  [k \in 1..Len(originPaths) |->
     [originPaths[k] EXCEPT !.points =
        [i \in 1..Len(originPaths[k].points) |->
           <<originPaths[k].points[i][1] + dx, originPaths[k].points[i][2] + dy>>]]]

\* Math.max(0.2, (base + d) / base) as the fraction <<numerator, denominator>>
Scale(base, d) == IF 5 * (base + d) < base THEN <<1, 5>> ELSE <<base + d, base>>

\* a scaled coordinate whose distance from the corner is cut to a multiple of 4
ScaledCoordSnapped(origin, v, scale) ==
  origin + 4 * ((((v - origin) * scale[1]) \div scale[2]) \div 4)

\* the scaled coordinate reaches the page as an integer exactly when the
\* division leaves no remainder
ScaledCoord(origin, v, scale) == origin + ((v - origin) * scale[1]) \div scale[2]

ExactCoord(origin, v, scale) == ((v - origin) * scale[1]) % scale[2] = 0

\* the strokes of a transform, resized from the corner of their box
ResizedBy(originPaths, bounds, dx, dy) ==
  LET scaleX == Scale(Max(bounds.width, 1), dx)
      scaleY == Scale(Max(bounds.height, 1), dy)
  IN [k \in 1..Len(originPaths) |->
        [originPaths[k] EXCEPT !.points =
           [i \in 1..Len(originPaths[k].points) |->
              <<ScaledCoord(bounds.x, originPaths[k].points[i][1], scaleX),
                ScaledCoord(bounds.y, originPaths[k].points[i][2], scaleY)>>]]]

\* every coordinate of the resize is an integer
ExactResize(originPaths, bounds, dx, dy) ==
  \A k \in 1..Len(originPaths) : \A i \in 1..Len(originPaths[k].points) :
    /\ ExactCoord(bounds.x, originPaths[k].points[i][1], Scale(Max(bounds.width, 1), dx))
    /\ ExactCoord(bounds.y, originPaths[k].points[i][2], Scale(Max(bounds.height, 1), dy))

\* a resize without the minimum
ResizedUnclamped(start, d) == start + d

\* the size a resize gives: Math.max(50, start + d)
ResizedTo(start, d) == Max(50, start + d)

MaxPoints == 3

\* a drag that puts the item's corner under the pointer
DraggedToPointer(item, dg, pos) == [item EXCEPT !.x = pos[1], !.y = pos[2]]

\* handlePointerMove with a dragItem: { ...item, x: pos.x - offsetX, y: pos.y - offsetY }
DraggedTo(item, dg, pos) == [item EXCEPT !.x = pos[1] - dg.offsetX, !.y = pos[2] - dg.offsetY]

\* handlePointerMove, steps 2 and 3: the update of the rendered item being
\* resized, or else dragged with a select tool; <<>> if the item is not rendered
ItemUpdate(u, shown, pos) ==
  LET rz == u.resizeItem[1]
      dg == u.dragItem[1]
      resized == FindItem(shown, rz.type, rz.id)
      dragged == FindItem(shown, dg.type, dg.id)
  IN IF u.resizeItem # <<>>
     THEN IF resized = <<>> THEN <<>>
          ELSE <<[op |-> "resizeItem", type |-> rz.type,
                  item |-> [resized[1] EXCEPT
                              !.width = ResizedTo(rz.startWidth, pos[1] - rz.startX),
                              !.height = ResizedTo(rz.startHeight, pos[2] - rz.startY)]]>>
     ELSE IF dragged = <<>> THEN <<>>
          ELSE <<[op |-> "dragItem", type |-> dg.type, item |-> DraggedTo(dragged[1], dg, pos)]>>

\* a transform that passes on the first of its strokes only
TransformedFirst(tf, pos) ==
  IF tf.mode = "move"
  THEN MovedBy(<<tf.originPaths[1]>>, pos[1] - tf.start[1], pos[2] - tf.start[2])
  ELSE ResizedBy(<<tf.originPaths[1]>>, tf.bounds, pos[1] - tf.start[1], pos[2] - tf.start[2])

\* handlePointerMove, the strokes a transform in progress passes to onPathsUpdate
TransformedPaths(tf, pos) ==
  IF tf.mode = "move"
  THEN MovedBy(tf.originPaths, pos[1] - tf.start[1], pos[2] - tf.start[2])
  ELSE ResizedBy(tf.originPaths, tf.bounds, pos[1] - tf.start[1], pos[2] - tf.start[2])

MoveItem(r, next, upd) ==
  IF upd = <<>> THEN NoStoreCall(r, next)
  ELSE StoreCall(r, next, UpdateItemOp(RS(r), r, upd[1].type, upd[1].item),
                 upd[1].op, upd[1].item.id)

\* updateCursor: awareness.setLocalStateField('cursor', point)
updateCursor(u, point) == [u EXCEPT !.cursor = point]

\* handlePointerMove on the container (one event, not coalesced): the cursor
\* is broadcast first, then the gesture in progress goes on.
PointerMove(r, pos) ==
  /\ budget > 0
  /\ IF ui[r].resizeItem # <<>> \/ (isSelectTool(ui[r].tool) /\ ui[r].dragItem # <<>>)
     THEN MoveItem(r, updateCursor(ui[r], <<pos>>), ItemUpdate(ui[r], pub[r], pos))
     ELSE IF ui[r].pathTransform # <<>>
     THEN StoreCall(r, updateCursor(ui[r], <<pos>>),
                    UpdatePathsOp(RS(r), r, TransformedPaths(ui[r].pathTransform[1], pos)),
                    "transformPaths",
                    {ui[r].pathTransform[1].originPaths[k].id :
                       k \in 1..Len(ui[r].pathTransform[1].originPaths)})
     ELSE IF ui[r].selectionRect # <<>>
     THEN NoStoreCall(r, [updateCursor(ui[r], <<pos>>) EXCEPT !.selectionRect =
                            <<[start |-> ui[r].selectionRect[1].start, end |-> pos]>>])
     ELSE IF ui[r].tool = "ERASER" /\ ui[r].isDrawing
     THEN StoreCall(r, updateCursor(ui[r], <<pos>>), eraseAt(RS(r), r, pub[r], pos),
                    "eraseAt", pos)
     ELSE IF ui[r].isDrawing /\ ui[r].tool = "PEN"
     THEN /\ Len(ui[r].currentPathPoints) < MaxPoints
          /\ NoStoreCall(r, [updateCursor(ui[r], <<pos>>) EXCEPT
                               !.currentPathPoints = Append(@, pos)])
     ELSE NoStoreCall(r, updateCursor(ui[r], <<pos>>))

\* a stroke made of the last point of the buffer only
newPathLastPointOnly(id, points) ==
  [id |-> id, points |-> <<points[Len(points)]>>, color |-> penStyle.color,
   width |-> penStyle.width]

\* newPath: a copy of the buffer under a fresh id, in the style of the pen
newPath(id, points) ==
  [id |-> id, points |-> points, color |-> penStyle.color, width |-> penStyle.width]

\* handlePointerUp: the handler of onPointerUp, onPointerLeave and onPointerCancel
handlePointerUp(r) ==
  LET u == ui[r]
      shown == pub[r]
      rect == normalizeRect(u.selectionRect[1].start, u.selectionRect[1].end)
      Hit(path) == rectsIntersect(getPathBounds(path), rect)
      hits == SelectSeq(shown.paths, Hit)
      selected == IF u.selectionRect # <<>> /\ rect.width > 4 /\ rect.height > 4
                  THEN [k \in 1..Len(hits) |-> hits[k].id]
                  ELSE u.selectedPathIds
      next == [u EXCEPT !.captured = FALSE, !.dragItem = <<>>, !.resizeItem = <<>>,
                        !.pathTransform = <<>>, !.selectedPathIds = selected,
                        !.selectionRect = <<>>,
                        !.currentPathPoints = IF u.isDrawing THEN <<>> ELSE @,
                        !.isDrawing = FALSE]
  IN IF u.isDrawing /\ u.tool = "PEN" /\ Len(u.currentPathPoints) > 0
     THEN \E id \in FreshPathIds :
            StoreCall(r, next,
                      AddPathOp(RS(r), r, newPath(id, u.currentPathPoints)),
                      "addPath", id)
     ELSE NoStoreCall(r, next)

PointerUp(r) ==
  /\ budget > 0
  /\ handlePointerUp(r)

PointerLeave(r) ==
  /\ budget > 0
  /\ handlePointerUp(r)

PointerCancel(r) ==
  /\ budget > 0
  /\ handlePointerUp(r)

\* handleItemPointerDown on a rendered item: nothing happens without a select tool
ItemPointerDown(r, type, id, pos) ==
  LET item == FindItem(pub[r], type, id)
  IN /\ budget > 0
     /\ isSelectTool(ui[r].tool)
     /\ item # <<>>
     /\ NoStoreCall(r, [ui[r] EXCEPT !.dragItem =
                          <<[type |-> type, id |-> id, offsetX |-> pos[1] - item[1].x,
                             offsetY |-> pos[2] - item[1].y]>>])

\* handleResizePointerDown on the handle of a rendered item
ResizePointerDown(r, type, id, pos) ==
  LET item == FindItem(pub[r], type, id)
  IN /\ budget > 0
     /\ isSelectTool(ui[r].tool)
     /\ item # <<>>
     /\ NoStoreCall(r, [ui[r] EXCEPT
          !.captured = TRUE,
          !.resizeItem =
            <<[type |-> type, id |-> id, startX |-> pos[1], startY |-> pos[2],
               startWidth |-> item[1].width,
               startHeight |-> IF type = "image" /\ item[1].height = 0 THEN 200
                               ELSE item[1].height]>>])

\* a press that grabs the item whatever the tool is
PressItemGrabs(r, type, id, pos) ==
  LET item == FindItem(pub[r], type, id)
  IN /\ budget > 0
     /\ item # <<>>
     /\ NoStoreCall(r, [ui[r] EXCEPT !.dragItem =
                          <<[type |-> type, id |-> id, offsetX |-> pos[1] - item[1].x,
                             offsetY |-> pos[2] - item[1].y]>>])

\* a pointer-down inside a rendered item. Under the pen and the eraser the items
\* are rendered with pointer-events-none and the event goes to the container;
\* otherwise handleItemPointerDown gets it, and without a select tool returns
\* before stopPropagation, so that it reaches the container's handler as well.
PressItem(r, type, id, pos) ==
  LET item == FindItem(pub[r], type, id)
  IN /\ budget > 0
     /\ item # <<>>
     /\ IF ~isPenOrEraser(ui[r].tool) /\ isSelectTool(ui[r].tool)
        THEN ItemPointerDown(r, type, id, pos)
        ELSE PointerDown(r, pos)

\* selectedBounds: the box around the selected strokes that are rendered
selectedBounds(u, shown) == getBoundsFromPaths(selectedPaths(shown, u.selectedPathIds))

\* handleSelectionMovePointerDown and handleSelectionResizePointerDown on the
\* box drawn around the selected strokes
SelectionPointerDown(r, mode, pos) ==
  LET sel == selectedPaths(pub[r], ui[r].selectedPathIds)
  IN /\ budget > 0
     /\ isSelectTool(ui[r].tool)
     /\ sel # <<>>
     /\ NoStoreCall(r, [ui[r] EXCEPT
          !.captured = TRUE,
          !.pathTransform = <<[mode |-> mode, start |-> pos,
                               bounds |-> getBoundsFromPaths(sel)[1], originPaths |-> sel]>>])

SelectionMovePointerDown(r, pos) ==
  /\ budget > 0
  /\ SelectionPointerDown(r, "move", pos)

SelectionResizePointerDown(r, pos) ==
  /\ budget > 0
  /\ SelectionPointerDown(r, "resize", pos)

----------------------------------------------------------------------------
(* The connection (the effect of useWhiteboardStore) *)

\* provider.destroy() of provider p: it disconnects, and its awareness entry goes
DestroyProvider(c, p) == [c EXCEPT !.live = @ \ {p}, !.presence = @ \ {p}]

\* ydoc.destroy() of document p
DestroyDoc(c, p) == [c EXCEPT !.docs = @ \ {p}]

\* a cleanup that destroys the document and leaves the provider connected
CleanupKeepsProvider(c) ==
  IF c.effect = 0 THEN c ELSE [DestroyDoc(c, c.effect) EXCEPT !.effect = 0]

\* a cleanup that destroys the pair and clears the timer, and leaves isActive
\* true
CleanupStaysActive(c) ==
  IF c.effect = 0 \/ c.effect \notin c.live THEN c
  ELSE [DestroyDoc(DestroyProvider(c, c.effect), c.effect) EXCEPT !.authTimeout = FALSE]

\* the cleanup function the effect returned: isActive = false, the timer is
\* cleared, provider.destroy(); ydoc.destroy() of the pair it made
Cleanup(c) ==
  IF c.effect = 0 THEN c
  ELSE [DestroyDoc(DestroyProvider(c, c.effect), c.effect) EXCEPT
          !.effect = 0, !.authTimeout = FALSE]

\* the effect without a room: what the refs point at is destroyed and the refs
\* are set to null; isConnected and isAuthenticating are reset, connectionError
\* is not
WithoutRoom(c) ==
  LET c1 == IF c.providerRef # 0 THEN DestroyProvider(c, c.providerRef) ELSE c
      c2 == IF c.ydocRef # 0 THEN DestroyDoc(c1, c.ydocRef) ELSE c1
  IN [c2 EXCEPT !.providerRef = 0, !.ydocRef = 0, !.effect = 0,
                !.isConnected = FALSE, !.isAuthenticating = FALSE]

\* the effect with a room: a new Y.Doc and a new WebsocketProvider, which the
\* refs point at from then on; ensureLocalUser puts the 'user' entry in the
\* provider's awareness. The state is reset, didConnect starts false and the
\* timer is set.
WithRoom(c) ==
  [c EXCEPT !.made = @ + 1, !.live = @ \cup {c.made + 1}, !.docs = @ \cup {c.made + 1},
            !.presence = @ \cup {c.made + 1}, !.providerRef = c.made + 1,
            !.ydocRef = c.made + 1, !.effect = c.made + 1,
            !.connectionError = "", !.isConnected = FALSE, !.isAuthenticating = TRUE,
            !.didConnect = FALSE, !.authTimeout = TRUE]

\* App's effect on [connectionError, session], with a session: it logs out,
\* and the login screen shows the error. The render without the session runs
\* the hook's effect again: the cleanup, then the branch without a room.
LoggedOut(c, connectionError) ==
  WithoutRoom(Cleanup([c EXCEPT !.roomId = "", !.passcode = "",
                                !.loginError = connectionError]))

\* The effects of the commit that follows setSession(session): the hook's
\* effect first, which only queues its setConnectionError(null), then App's,
\* which still sees the connectionError of the render.
SessionCommitted(c, connectionError) ==
  IF connectionError # "" THEN LoggedOut(WithRoom(c), connectionError) ELSE WithRoom(c)

MaxConnects == 4

\* React runs the effect again: roomId, passcode, userName or isCreator changed,
\* or StrictMode mounts the component a second time. The cleanup of the last run
\* comes first. With a room, the store starts again from the new document as
\* ensureLocalUser and syncData leave it (fresh). The awareness of the provider
\* that was destroyed is gone, its cursor with it. A room comes with the
\* session handleLogin sets, after it cleared loginError.
RunEffect(r, roomId, passcode, fresh) ==
  LET c == [Cleanup(conn[r]) EXCEPT !.roomId = roomId, !.passcode = passcode]
  IN IF roomId = ""
     THEN /\ conn' = [conn EXCEPT ![r] = WithoutRoom(c)]
          /\ ui' = [ui EXCEPT ![r] = updateCursor(@, <<>>)]
          /\ UNCHANGED store
     ELSE /\ conn[r].made < MaxConnects
          /\ conn' = [conn EXCEPT ![r] =
                        SessionCommitted([c EXCEPT !.loginError = ""],
                                         conn[r].connectionError)]
          /\ doc' = [doc EXCEPT ![r] = fresh.d]
          /\ clock' = [clock EXCEPT ![r] = fresh.c]
          /\ localUser' = [localUser EXCEPT ![r] = fresh.u]
          /\ pub' = [pub EXCEPT ![r] = SyncData(fresh.d)]
          /\ log' = [log EXCEPT ![r] =
                       Tagged(<<MergeUpdates(fresh.out, [items |-> <<>>, dels |-> {}])>>,
                              "ensureLocalUser", 0, UserId(r), [s \in Rep |-> 0])]
          /\ applied' = [applied EXCEPT ![r] = [s \in Rep |-> IF s = r THEN 1 ELSE 0]]
          /\ ui' = [ui EXCEPT ![r] = updateCursor(@, <<>>)]
          /\ UNCHANGED budget

Connect(r, roomId, passcode) == RunEffect(r, roomId, passcode, EnsureLocalUser(Blank, r))

\* handleLogin on the login screen
Login(r, passcode) ==
  /\ conn[r].roomId = ""
  /\ Connect(r, "room", passcode)

\* a handler of the hook that changes the connection only
ConnectionStep(r, c) ==
  /\ conn' = [conn EXCEPT ![r] = c]
  /\ UNCHANGED <<store, ui>>

\* a failAuthentication that leaves the authenticating phase on
failAuthenticationStillAuthenticating(c, message) ==
  IF c.effect = 0 \/ c.didConnect THEN c
  ELSE [c EXCEPT !.connectionError = message, !.isConnected = FALSE]

\* failAuthentication(message)
failAuthentication(c, message) ==
  IF c.effect = 0 \/ c.didConnect THEN c
  ELSE [c EXCEPT !.connectionError = message, !.isAuthenticating = FALSE,
                 !.isConnected = FALSE]

\* The handlers the effect run p registered. isActive of run p is true from
\* the run until its cleanup (p is c.effect); the handlers return at once
\* when it is false.
handleStatus(c, p, status) ==
  IF c.effect # p THEN c
  ELSE IF status = "connected"
  THEN [c EXCEPT !.isConnected = TRUE, !.didConnect = TRUE, !.connectionError = "",
                 !.isAuthenticating = FALSE, !.authTimeout = FALSE]
  ELSE [c EXCEPT !.isConnected = FALSE]

handleConnectionError(c, p) ==
  IF c.effect # p THEN c ELSE failAuthentication(c, "failed")

handleConnectionClose(c, p) ==
  IF c.effect # p \/ c.didConnect THEN c ELSE failAuthentication(c, "closed")

\* awareness.on('change'): the peers with a 'user' entry are reported
handleAwarenessChange(c, p, users) ==
  IF c.effect # p THEN c ELSE [c EXCEPT !.remoteUsers = users]

\* handleStatus: provider.on('status')
Status(r, status) ==
  /\ conn[r].effect # 0
  /\ ConnectionStep(r, handleStatus(conn[r], conn[r].effect, status))

\* handleConnectionError: provider.on('connection-error')
ConnectionError(r) ==
  /\ conn[r].effect # 0
  /\ ConnectionStep(r, handleConnectionError(conn[r], conn[r].effect))

\* handleConnectionClose: provider.on('connection-close')
ConnectionClose(r) ==
  /\ conn[r].effect # 0
  /\ ConnectionStep(r, handleConnectionClose(conn[r], conn[r].effect))

\* the awareness of the provider of the effect run changes: a peer came,
\* went or moved its cursor
AwarenessChange(r) ==
  /\ conn[r].effect # 0
  /\ ConnectionStep(r, handleAwarenessChange(conn[r], conn[r].effect,
                                             {q \in Rep \ {r} : conn[q].presence # {}}))

\* the component unmounts: React runs the cleanup of the last effect run
Unmount(r) ==
  /\ conn[r].effect # 0
  /\ ConnectionStep(r, Cleanup(conn[r]))

\* Events of a provider that has been destroyed, which reach the handlers its
\* effect run registered (if they are still registered): the socket closes
\* after provider.destroy(), a message of the server was on its way.
LateStatus(r, p, status) ==
  /\ p \in 1..conn[r].made
  /\ p \notin conn[r].live
  /\ ConnectionStep(r, handleStatus(conn[r], p, status))

LateConnectionError(r, p) ==
  /\ p \in 1..conn[r].made
  /\ p \notin conn[r].live
  /\ ConnectionStep(r, handleConnectionError(conn[r], p))

LateConnectionClose(r, p) ==
  /\ p \in 1..conn[r].made
  /\ p \notin conn[r].live
  /\ ConnectionStep(r, handleConnectionClose(conn[r], p))

LateAwarenessChange(r, p, users) ==
  /\ p \in 1..conn[r].made
  /\ p \notin conn[r].live
  /\ ConnectionStep(r, handleAwarenessChange(conn[r], p, users))

\* the callback of authTimeout, CONNECTION_TIMEOUT_MS after the effect ran
AuthTimeout(r) ==
  /\ conn[r].authTimeout
  /\ ConnectionStep(r, failAuthentication([conn[r] EXCEPT !.authTimeout = FALSE], "timeout"))

\* the commit of a render with a connectionError and a session: App's effect
\* logs out, and the awareness goes with the provider
Logout(r) ==
  /\ conn[r].connectionError # ""
  /\ conn[r].roomId # ""
  /\ conn' = [conn EXCEPT ![r] = LoggedOut(conn[r], conn[r].connectionError)]
  /\ ui' = [ui EXCEPT ![r] = updateCursor(@, <<>>)]
  /\ UNCHANGED store

----------------------------------------------------------------------------
(* The passcode heuristic of the WebRTC version of useWhiteboardStore *)

\* the peer connections and remote states a participant gets to see
MaxPeers == 2

RtcStep(r, w) ==
  /\ conn' = [conn EXCEPT ![r].rtc = w]
  /\ UNCHANGED <<store, ui>>

\* cleanupAuth: the timer is cleared and awarenessUpdateHandler removed
cleanupAuth(w) == [w EXCEPT !.authTimeoutId = FALSE, !.onUpdate = FALSE]

\* the effect with a room: the error is reset, a provider is made with the
\* local awareness state, and the timer is set for a joiner with a passcode
RtcJoin(r, passcode, isCreator) ==
  /\ ~conn[r].rtc.joined
  /\ RtcStep(r, [joined |-> TRUE, passcode |-> passcode, isCreator |-> isCreator,
                 webrtcConns |-> 0, states |-> 1,
                 authTimeoutId |-> ~isCreator /\ passcode # "",
                 onUpdate |-> ~isCreator /\ passcode # "",
                 isAuthenticating |-> ~isCreator /\ passcode # "",
                 connectionError |-> ""])

\* the transport opens a connection to a peer, or loses one
PeerConnects(r) ==
  /\ conn[r].rtc.joined
  /\ conn[r].rtc.webrtcConns < MaxPeers
  /\ RtcStep(r, [conn[r].rtc EXCEPT !.webrtcConns = @ + 1])

PeerDisconnects(r) ==
  /\ conn[r].rtc.joined
  /\ conn[r].rtc.webrtcConns > 0
  /\ RtcStep(r, [conn[r].rtc EXCEPT !.webrtcConns = @ - 1])

\* awareness 'update' with the state of one more participant decrypted:
\* awarenessUpdateHandler, if it is registered
AwarenessUpdate(r) ==
  /\ conn[r].rtc.joined
  /\ conn[r].rtc.states <= MaxPeers
  /\ RtcStep(r, IF conn[r].rtc.onUpdate
                THEN [cleanupAuth(conn[r].rtc) EXCEPT !.states = @ + 1,
                                                      !.isAuthenticating = FALSE]
                ELSE [conn[r].rtc EXCEPT !.states = @ + 1])

\* a check that takes every join that saw no other participant for a failure
AuthFailedAlone(peerCount, awarenessCount) == awarenessCount <= 1

\* the check of the timer callback
AuthFailed(peerCount, awarenessCount) == peerCount > 0 /\ awarenessCount <= 1

\* the callback of authTimeoutId, 7 s after the effect ran
RtcAuthTimeout(r) ==
  /\ conn[r].rtc.authTimeoutId
  /\ RtcStep(r, [cleanupAuth(conn[r].rtc) EXCEPT
                   !.connectionError =
                     IF AuthFailed(conn[r].rtc.webrtcConns, conn[r].rtc.states)
                     THEN "Authentication failed: Incorrect password." ELSE @,
                   !.isAuthenticating = FALSE])

\* App's effect logs out on the error; the cleanup of the effect destroys the
\* provider, and the effect without a room returns at once
RtcLogout(r) ==
  /\ conn[r].rtc.joined
  /\ conn[r].rtc.connectionError # ""
  /\ RtcStep(r, [cleanupAuth(conn[r].rtc) EXCEPT !.joined = FALSE, !.webrtcConns = 0,
                                                 !.states = 0])

MaxPathOps == 3

InitPaths == Init /\ budget = MaxPathOps

NextPaths ==
  \/ \E r \in Rep, id \in PathIds : AddPath(r, PathAt(id, 0))
  \/ \E r \in Rep, ids \in SUBSET PathIds : DeletePaths(r, ids)
  \/ \E r \in Rep, ids \in (SUBSET PathIds) \ {{}} : UpdatePaths(r, MovedPaths(ids, r))
  \/ \E r \in Rep : ClearBoard(r)
  \/ \E r, s \in Rep : Deliver(r, s)

SpecPaths == InitPaths /\ [][NextPaths]_vars

MaxNoteOps == 3

InitNotes == Init /\ budget = MaxNoteOps

NextNotes ==
  \/ \E r \in Rep, id \in NoteIds : AddNote(r, NewNote(id))
  \/ \E r \in Rep, id \in NoteIds : UpdateNote(r, StaleNote(r, id))
  \/ \E r \in Rep, id \in NoteIds : DragNote(r, id, DragX(r))
  \/ \E r \in Rep, id \in NoteIds, h \in ContentHeights : EditNoteText(r, id, TextOf(r), h)
  \/ \E r \in Rep, id \in NoteIds : DeleteNote(r, id)
  \/ \E r \in Rep : Synced(r)
  \/ \E r, s \in Rep : Deliver(r, s)

SpecNotes == InitNotes /\ [][NextNotes]_vars

\* an image or a file as the canvas passes it to the store after a drag
Dragged(r, item) == [item EXCEPT !.x = DragX(r)]

MaxBoardOps == 3

InitBoard == Init /\ budget = MaxBoardOps

NextBoard ==
  \/ \E r \in Rep : AddPath(r, PathAt("p1", 0))
  \/ \E r \in Rep : DeletePaths(r, {"p1"})
  \/ \E r \in Rep : UpdatePaths(r, MovedPaths({"p1"}, r))
  \/ \E r \in Rep : ClearBoard(r)
  \/ \E r \in Rep, id \in NoteIds : AddNote(r, NewNote(id))
  \/ \E r \in Rep, id \in NoteIds : UpdateNote(r, StaleNote(r, id))
  \/ \E r \in Rep, id \in NoteIds : DeleteNote(r, id)
  \/ \E r \in Rep, id \in ImageIds : AddImage(r, NewImage(id))
  \/ \E r \in Rep, id \in ImageIds : UpdateImage(r, Dragged(r, NewImage(id)))
  \/ \E r \in Rep, id \in ImageIds : DeleteImage(r, id)
  \/ \E r \in Rep, id \in FileIds : AddFile(r, NewFile(id))
  \/ \E r \in Rep, id \in FileIds : UpdateFile(r, Dragged(r, NewFile(id)))
  \/ \E r \in Rep, id \in FileIds : DeleteFile(r, id)
  \/ \E r, s \in Rep : Deliver(r, s)

SpecBoard == InitBoard /\ [][NextBoard]_vars

MaxClearOps == 5

InitClear == Init /\ budget = MaxClearOps

\* participant r has not sent anything with this call yet
NotYet(r, op) == \A i \in 1..Len(log[r]) : log[r][i].op # op

\* the canvas gives every new item a fresh id (crypto.randomUUID): here the first
\* participant draws the stroke and drops the image, the second writes the note
\* and drops the file, each once, and either clears the board
DrawStroke == NotYet(1, "addPath") /\ AddPath(1, PathAt("p1", 0))

WriteNote == NotYet(2, "addNote") /\ AddNote(2, NewNote("n1"))

DropImage == NotYet(1, "addImage") /\ AddImage(1, NewImage("i1"))

DropFile == NotYet(2, "addFile") /\ AddFile(2, NewFile("f1"))

NextClear ==
  \/ DrawStroke
  \/ WriteNote
  \/ DropImage
  \/ DropFile
  \/ \E r \in Rep : ClearBoard(r)
  \/ \E r, s \in Rep : Deliver(r, s)

SpecClear == InitClear /\ [][NextClear]_vars

\* Drawing and erasing. The first participant is at the canvas, the second one
\* contributes a stroke of its own and merges. The pen visits two points 20
\* apart; the eraser comes down on the second one, or above the middle of the
\* segment between them, 20 and 19 away from it.
DrawPoints == {<<0, 0>>, <<20, 0>>}

ErasePoints == {<<20, 0>>, <<10, 20>>, <<10, 19>>}

MaxPenOps == 2

InitPen == Init /\ budget = MaxPenOps

PeerStroke ==
  /\ NotYet(2, "addPath")
  /\ "p2" \in FreshPathIds
  /\ AddPath(2, PathAt("p2", 0))

PointsFor(tool) == IF tool = "ERASER" THEN ErasePoints ELSE DrawPoints

NextPen ==
  \/ \E tool \in {"PEN", "ERASER"} : SelectTool(1, tool)
  \/ \E pos \in PointsFor(ui[1].tool) : PointerDown(1, pos)
  \/ \E pos \in PointsFor(ui[1].tool) : PointerMove(1, pos)
  \/ PointerUp(1)
  \/ PointerLeave(1)
  \/ PointerCancel(1)
  \/ PeerStroke
  \/ \E r, s \in Rep : Deliver(r, s)

SpecPen == InitPen /\ [][NextPen]_vars

\* Connecting, leaving and connecting again: each participant's effect runs
\* with the room or without one, with either passcode, any number of times up
\* to MaxConnects providers; between the runs a participant draws a stroke.
Rooms == {"", "room"}

Passcodes == {"", "pw"}

MaxConnectOps == 1

InitConnect == Init /\ budget = MaxConnectOps

NextConnect ==
  \/ \E r \in Rep, roomId \in Rooms, passcode \in Passcodes : Connect(r, roomId, passcode)
  \/ \E r \in Rep : conn[r].roomId # "" /\ AddPath(r, PathAt("p1", 0))

SpecConnect == InitConnect /\ [][NextConnect]_vars

\* Logging in. Both participants are at the login screen; each logs in with
\* either passcode, the provider reports a status, an error or a close, the
\* timer runs out, and App logs out on a connection error, in any order.
InitAuth ==
  /\ doc = [r \in Rep |-> Blank.d]
  /\ clock = [r \in Rep |-> Blank.c]
  /\ localUser = [r \in Rep |-> Blank.u]
  /\ pub = [r \in Rep |-> Blank.p]
  /\ log = [r \in Rep |-> <<>>]
  /\ applied = [r \in Rep |-> [s \in Rep |-> 0]]
  /\ budget = MaxConnectOps
  /\ ui = [r \in Rep |-> IdleCanvas]
  /\ conn = [r \in Rep |-> AtLogin]

NextAuth ==
  \/ \E r \in Rep, passcode \in Passcodes : Login(r, passcode)
  \/ \E r \in Rep, status \in {"connected", "disconnected"} : Status(r, status)
  \/ \E r \in Rep : ConnectionError(r)
  \/ \E r \in Rep : ConnectionClose(r)
  \/ \E r \in Rep : AuthTimeout(r)
  \/ \E r \in Rep : Logout(r)

SpecAuth == InitAuth /\ [][NextAuth]_vars

\* A timer set with setTimeout and not cleared runs out: the callback of
\* authTimeout is not put off forever while it is pending.
SpecAuthFair == SpecAuth /\ \A r \in Rep : WF_vars(AuthTimeout(r))

\* Tearing down. Both participants are at the login screen; each logs in,
\* changes the room or the passcode, leaves or unmounts; the provider of the
\* effect run reports, the timer runs out, App logs out, and the providers
\* that were destroyed report as well.
MaxTeardownRuns == 2

\* the effect runs again, with a room as long as attempts are left
Reconnect(r, roomId, passcode) ==
  /\ roomId # "" => conn[r].made < MaxTeardownRuns
  /\ Connect(r, roomId, passcode)

NextTeardown ==
  \/ \E r \in Rep, roomId \in Rooms, passcode \in Passcodes : Reconnect(r, roomId, passcode)
  \/ \E r \in Rep : Unmount(r)
  \/ \E r \in Rep, status \in {"connected", "disconnected"} : Status(r, status)
  \/ \E r \in Rep : ConnectionError(r)
  \/ \E r \in Rep : ConnectionClose(r)
  \/ \E r \in Rep : AuthTimeout(r)
  \/ \E r \in Rep : AwarenessChange(r)
  \/ \E r \in Rep : Logout(r)
  \/ \E r \in Rep, p \in 1..MaxTeardownRuns, status \in {"connected", "disconnected"} :
       LateStatus(r, p, status)
  \/ \E r \in Rep, p \in 1..MaxTeardownRuns : LateConnectionError(r, p)
  \/ \E r \in Rep, p \in 1..MaxTeardownRuns : LateConnectionClose(r, p)
  \/ \E r \in Rep, p \in 1..MaxTeardownRuns, users \in {{}, Rep} :
       LateAwarenessChange(r, p, users \ {r})

SpecTeardown == InitAuth /\ [][NextTeardown]_vars

\* The passcode heuristic of the WebRTC version of the hook. Both participants
\* are at the login screen; each joins, as creator or not, with or without a
\* passcode; peers connect and disconnect, remote awareness states arrive,
\* the timer runs out, and App logs out on a connection error.
NextHeuristic ==
  \/ \E r \in Rep, passcode \in Passcodes, isCreator \in BOOLEAN :
       RtcJoin(r, passcode, isCreator)
  \/ \E r \in Rep : PeerConnects(r)
  \/ \E r \in Rep : PeerDisconnects(r)
  \/ \E r \in Rep : AwarenessUpdate(r)
  \/ \E r \in Rep : RtcAuthTimeout(r)
  \/ \E r \in Rep : RtcLogout(r)

SpecHeuristic == InitAuth /\ [][NextHeuristic]_vars

\* Dragging, resizing and editing items. The second participant has written a
\* note and dropped a file, the first has dropped an image and is at the canvas
\* with a select tool: it grabs what lies under (150, 120) or takes an item's
\* resize handle at its lower right corner, and moves the pointer by (20, -10)
\* or far up and to the left; either participant types into the note.
GrabPoints == {<<150, 120>>}

ItemMovePoints == {<<170, 110>>, <<-50, 0>>}

ItemKeys == {<<"note", "n1">>, <<"image", "i1">>, <<"file", "f1">>}

MaxItemOps == 3

InitItems == Init /\ budget = MaxItemOps

\* a pointer-down on a rendered item is a pointer-down inside its rectangle
GrabItem(type, id, pos) ==
  LET item == FindItem(pub[1], type, id)
  IN /\ item # <<>>
     /\ OnItem(pos, item[1], item[1].height)
     /\ ItemPointerDown(1, type, id, pos)

\* the resize handle sits at the lower right corner of the rendered item
GrabHandle(type, id) ==
  LET item == FindItem(pub[1], type, id)
  IN /\ item # <<>>
     /\ ResizePointerDown(1, type, id,
                          <<item[1].x + item[1].width, item[1].y + item[1].height>>)

ItemMove(pos) == isSelectTool(ui[1].tool) /\ PointerMove(1, pos)

ItemUp == isSelectTool(ui[1].tool) /\ PointerUp(1)

NextItems ==
  \/ \E tool \in {"PEN", "SELECT"} : SelectTool(1, tool)
  \/ WriteNote
  \/ DropImage
  \/ DropFile
  \/ \E key \in ItemKeys, pos \in GrabPoints : GrabItem(key[1], key[2], pos)
  \/ \E key \in ItemKeys : GrabHandle(key[1], key[2])
  \/ \E pos \in ItemMovePoints : ItemMove(pos)
  \/ ItemUp
  \/ \E r \in Rep, h \in ContentHeights : EditNoteText(r, "n1", TextOf(r), h)
  \/ \E r, s \in Rep : Deliver(r, s)

SpecItems == InitItems /\ [][NextItems]_vars

\* Erasing. The first participant is at the canvas with the pen or the eraser
\* and has drawn a stroke across the place where new items are put and dropped
\* an image; the second one has written a note and dropped a file. The pointer
\* comes down, on an item or beside it, at (150, 120), which is on all three
\* items and 10 from the stroke, at (150, 200), on the image and the file only,
\* or at (50, 50), on nothing. The toolbar is clicked between gestures.
ErasePoints2 == {<<150, 120>>, <<150, 200>>, <<50, 50>>}

MaxEraseOps == 3

InitErase == Init /\ budget = MaxEraseOps

CrossStroke ==
  /\ NotYet(1, "addPath")
  /\ AddPath(1, [PathAt("p1", 0) EXCEPT !.points = <<<<140, 110>>, <<160, 110>>>>])

PickTool(tool) == ~ui[1].isDrawing /\ SelectTool(1, tool)

EraseDown(pos) == ui[1].tool = "ERASER" /\ ~ui[1].isDrawing /\ PointerDown(1, pos)

EraseMove(pos) == ui[1].tool = "ERASER" /\ PointerMove(1, pos)

PressOn(type, id, pos) ==
  LET item == FindItem(pub[1], type, id)
  IN /\ item # <<>>
     /\ ~ui[1].isDrawing
     /\ OnItem(pos, item[1], item[1].height)
     /\ PressItem(1, type, id, pos)

NextErase ==
  \/ \E tool \in {"PEN", "ERASER"} : PickTool(tool)
  \/ CrossStroke
  \/ WriteNote
  \/ DropImage
  \/ DropFile
  \/ \E pos \in ErasePoints2 : EraseDown(pos)
  \/ \E pos \in ErasePoints2 : EraseMove(pos)
  \/ \E key \in ItemKeys, pos \in ErasePoints2 : PressOn(key[1], key[2], pos)
  \/ PointerUp(1)
  \/ \E r, s \in Rep : Deliver(r, s)

SpecErase == InitErase /\ [][NextErase]_vars

\* Selecting and transforming strokes. The first participant is at the canvas
\* with a select tool; each participant has committed at most one stroke, 15
\* apart on the line y = 0. The pointer comes down on the first stroke at
\* (5, 0) or beside it at (3, 10), and moves to (7, -5) or (20, -5): from
\* (3, 10) that is a marquee 4 wide, across the first stroke, or 17 wide,
\* across both, and 15 high.
DownPoints == {<<5, 0>>, <<3, 10>>}

MovePoints == {<<7, -5>>, <<20, -5>>}

MaxSelectOps == 3

InitSelect == Init /\ budget = MaxSelectOps

\* a stroke of the first participant, committed while the Pen tool is chosen
OwnStroke ==
  /\ ui[1].tool = "PEN"
  /\ ~ui[1].isDrawing
  /\ NotYet(1, "addPath")
  /\ AddPath(1, PathAt("p1", 0))

PeerStrokeAway == NotYet(2, "addPath") /\ AddPath(2, PathAt("p2", 15))

\* a pointer-move whose resize, if it is one, gives integer coordinates
ExactMove(r, pos) ==
  IF ui[r].pathTransform = <<>> THEN TRUE
  ELSE IF ui[r].pathTransform[1].mode = "move" THEN TRUE
  ELSE ExactResize(ui[r].pathTransform[1].originPaths, ui[r].pathTransform[1].bounds,
                   pos[1] - ui[r].pathTransform[1].start[1],
                   pos[2] - ui[r].pathTransform[1].start[2])

SelectDown(pos) == isSelectTool(ui[1].tool) /\ PointerDown(1, pos)

SelectMove(pos) == isSelectTool(ui[1].tool) /\ ExactMove(1, pos) /\ PointerMove(1, pos)

SelectUp == isSelectTool(ui[1].tool) /\ PointerUp(1)

NextSelect ==
  \/ \E tool \in {"PEN", "SELECT", "IMAGE"} : SelectTool(1, tool)
  \/ \E pos \in DownPoints : SelectDown(pos)
  \/ \E pos \in MovePoints : SelectMove(pos)
  \/ \E pos \in DownPoints : SelectionMovePointerDown(1, pos)
  \/ \E pos \in DownPoints : SelectionResizePointerDown(1, pos)
  \/ SelectUp
  \/ OwnStroke
  \/ PeerStrokeAway
  \/ \E r, s \in Rep : Deliver(r, s)

SpecSelect == InitSelect /\ [][NextSelect]_vars

\* Resizing there and back. The first participant draws a stroke of three
\* points in the box at (10, 10), 20 wide and 40 high, selects it with a
\* marquee from (0, 0), takes the handle at the lower right corner of the
\* selection box and moves it: to (50, 90) the box doubles, to (20, 30) it
\* halves, to (14, 18) it shrinks to a fifth, and from there to (30, 50) it
\* is back at its size.
BentPath == [PathAt("p1", 0) EXCEPT !.points = <<<<10, 10>>, <<20, 40>>, <<30, 50>>>>]

ResizePoints == {<<50, 90>>, <<20, 30>>, <<14, 18>>, <<30, 50>>}

MaxResizeOps == 3

InitResize == Init /\ budget = MaxResizeOps

BentStroke ==
  /\ ui[1].tool = "PEN"
  /\ NotYet(1, "addPath")
  /\ AddPath(1, BentPath)

\* a pointer-down on the handle of the selection box, at the corner of the box
GrabSelectionHandle ==
  LET sel == selectedPaths(pub[1], ui[1].selectedPathIds)
      box == getBoundsFromPaths(sel)[1]
  IN IF sel = <<>> THEN FALSE
     ELSE SelectionResizePointerDown(1, <<box.x + box.width, box.y + box.height>>)

NextResize ==
  \/ \E tool \in {"PEN", "SELECT"} : SelectTool(1, tool)
  \/ BentStroke
  \/ SelectDown(<<0, 0>>)
  \/ GrabSelectionHandle
  \/ \E pos \in ResizePoints : SelectMove(pos)
  \/ SelectUp
  \/ \E r, s \in Rep : Deliver(r, s)

SpecResize == InitResize /\ [][NextResize]_vars

\* Selected strokes that go away. The first participant is at the canvas with
\* a select tool and selects its stroke, the second participant's, or both
\* (pressing on one, or with a marquee); the second participant deletes
\* strokes, the first clears the board from the toolbar, and the first
\* presses on the box around the selection or on its handle.
MaxGoneOps == 3

InitGone == Init /\ budget = MaxGoneOps

NextGone ==
  \/ \E tool \in {"PEN", "SELECT"} : SelectTool(1, tool)
  \/ OwnStroke
  \/ PeerStrokeAway
  \/ \E pos \in DownPoints : SelectDown(pos)
  \/ \E pos \in MovePoints : SelectMove(pos)
  \/ SelectUp
  \/ \E pos \in DownPoints : SelectionMovePointerDown(1, pos)
  \/ \E pos \in DownPoints : SelectionResizePointerDown(1, pos)
  \/ \E ids \in (SUBSET {"p1", "p2"}) \ {{}} : DeletePaths(2, ids)
  \/ ClearBoard(1)
  \/ \E r, s \in Rep : Deliver(r, s)

SpecGone == InitGone /\ [][NextGone]_vars

\* Moving and rewriting images and files. The first participant has dropped an
\* image, the second a file, each once; a participant that holds the item
\* calls updateImage or updateFile with a payload that carries another
\* content and another place, a participant that held it and has lost it
\* passes on the copy it rendered last, moved; either deletes.
OtherSrc == "data:image/gif"

MaxContentOps == 4

InitContent == Init /\ budget = MaxContentOps

\* the Y.Map of participant r had the key once (it may be deleted by now)
Known(r, ty, id) == doc[r][<<ty, id>>] # <<>>

RewrittenImage(r, src) == [NewImage("i1") EXCEPT !.src = src, !.x = DragX(r)]

RewrittenFile(r, data) ==
  [NewFile("f1") EXCEPT !.data = data, !.fileName = IF data = OtherSrc THEN "b.gif" ELSE @,
                        !.fileType = IF data = OtherSrc THEN "image/gif" ELSE @,
                        !.y = DragX(r)]

RewriteImage(r, src) ==
  /\ budget > 0
  /\ Known(r, "images", "i1")
  /\ YMapHas(doc[r], "images", "i1") \/ src = NewImage("i1").src
  /\ UpdateImage(r, RewrittenImage(r, src))

RewriteFile(r, data) ==
  /\ budget > 0
  /\ Known(r, "files", "f1")
  /\ YMapHas(doc[r], "files", "f1") \/ data = NewFile("f1").data
  /\ UpdateFile(r, RewrittenFile(r, data))

RemoveImage(r) ==
  /\ budget > 0
  /\ YMapHas(doc[r], "images", "i1")
  /\ DeleteImage(r, "i1")

RemoveFile(r) ==
  /\ budget > 0
  /\ YMapHas(doc[r], "files", "f1")
  /\ DeleteFile(r, "f1")

NextContent ==
  \/ DropImage
  \/ DropFile
  \/ \E r \in Rep, src \in {NewImage("i1").src, OtherSrc} : RewriteImage(r, src)
  \/ \E r \in Rep, data \in {NewFile("f1").data, OtherSrc} : RewriteFile(r, data)
  \/ \E r \in Rep : RemoveImage(r)
  \/ \E r \in Rep : RemoveFile(r)
  \/ \E r, s \in Rep : Deliver(r, s)

SpecContent == InitContent /\ [][NextContent]_vars

----------------------------------------------------------------------------
(* Properties of the stroke operations, under SpecPaths *)

PathItems(d) == d[<<"paths", "-">>]

\* every update has reached every participant
Quiescent == \A r, s \in Rep : applied[r][s] = Len(log[s])

\* the updates participant r has merged, its own included
Merged(r) == UNION {{<<s, i>> : i \in 1..applied[r][s]} : s \in Rep}

\* the updates of the store call n of participant s
CallOf(s, n) == {i \in 1..Len(log[s]) : log[s][i].n = n}

\* C2: a deletePaths(ids) step removes, where it is called, exactly the strokes
\* present whose id is in ids, whatever other participants did before it; and
\* where its update is merged later it removes only strokes whose id is in ids,
\* leaving every other stroke (concurrent inserts and transforms included) in place.
C2DeletesExactlyIds ==
  [][/\ \A r \in Rep, ids \in SUBSET PathIds :
          DeletePaths(r, ids) =>
            LET Kept(path) == path.id \notin ids
            IN /\ ToArray(PathItems(doc'[r])) = SelectSeq(ToArray(PathItems(doc[r])), Kept)
               /\ pub'[r].paths = SelectSeq(pub[r].paths, Kept)
     /\ \A r, s \in Rep :
          (Deliver(r, s) /\ log[s][applied[r][s] + 1].op = "deletePaths") =>
            LET u == log[s][applied[r][s] + 1]
                old == PathItems(doc[r])
                new == PathItems(doc'[r])
            IN /\ Len(new) = Len(old)
               /\ \A i \in 1..Len(old) :
                    IF <<(<<"paths", "-">>), old[i].id>> \in u.dels
                    THEN new[i].del /\ old[i].val.id \in u.arg
                    ELSE new[i] = old[i]
               /\ pub'[r].paths = ToArray(new)]_vars

\* a deletePaths that found strokes has been merged by another participant who
\* still shows a stroke
C2Witness ==
  \E s \in Rep : \E r \in Rep \ {s}, i \in 1..Len(log[s]) :
    /\ log[s][i].op = "deletePaths"
    /\ log[s][i].dels # {}
    /\ applied[r][s] >= i
    /\ pub[r].paths # <<>>

\* C3: updatePaths is one transaction: the call publishes at most one snapshot and
\* sends at most one update, in that snapshot every addressed stroke present has
\* its new points and none is missing, and a participant holds of a call either
\* all of it (every new stroke merged, every replaced one gone) or nothing of it
\* (no new stroke, and no replaced stroke gone unless another merged update removed it);
\* what is published is always the whole document.
C3UpdatePathsAtomic ==
  /\ \A r \in Rep : pub[r] = SyncData(doc[r])
  /\ \A r \in Rep, ids \in (SUBSET PathIds) \ {{}} :
       LET upd == MovedPaths(ids, r)
           res == UpdatePathsOp(RS(r), r, upd)
           before == pub[r].paths
       IN /\ Len(res.tr) <= 1
          /\ Len(res.out) <= 1
          /\ res.p.paths = [i \in 1..Len(before) |->
                              IF UpdateMapHas(upd, before[i].id)
                              THEN UpdateMapGet(upd, before[i].id) ELSE before[i]]
  /\ \A s \in Rep : \A r \in Rep, i \in 1..Len(log[s]) :
       log[s][i].op = "updatePaths" =>
         LET call == CallOf(s, log[s][i].n)
             news == UNION {{log[s][j].items[k].item.id : k \in 1..Len(log[s][j].items)} : j \in call}
             olds == UNION {{x[2] : x \in log[s][j].dels} : j \in call}
             mine == PathItems(doc[r])
             Has(id) == \E k \in 1..Len(mine) : mine[k].id = id
             Gone(id) == \E k \in 1..Len(mine) : mine[k].id = id /\ mine[k].del
             ByOther(id) == \E x \in Merged(r) :
                              /\ ~(x[1] = s /\ x[2] \in call)
                              /\ <<(<<"paths", "-">>), id>> \in log[x[1]][x[2]].dels
         IN \/ (\A id \in news : Has(id)) /\ (\A id \in olds : Gone(id))
            \/ (\A id \in news : ~Has(id)) /\ (\A id \in olds : Gone(id) => ByOther(id))

\* an updatePaths that moved two strokes has been merged by the other participant
C3Witness ==
  \E s \in Rep : \E r \in Rep \ {s}, i \in 1..Len(log[s]) :
    /\ log[s][i].op = "updatePaths"
    /\ Len(log[s][i].items) = 2
    /\ applied[r][s] >= i
    /\ \A k \in 1..2 : log[s][i].items[k].item.val \in Range(pub[r].paths)

\* C8: addPath called with a stroke that is already shown once leaves it shown once
C8AddPathIdempotent ==
  [][\A r \in Rep, id \in PathIds :
       LET path == PathAt(id, 0)
           Same(q) == q = path
       IN (AddPath(r, path) /\ Len(SelectSeq(pub[r].paths, Same)) = 1)
            => Len(SelectSeq(pub'[r].paths, Same)) = 1]_vars

\* the addPath updates sent so far
AddPathUpdates ==
  UNION {{<<s, i>> : i \in {j \in 1..Len(log[s]) : log[s][j].op = "addPath"}} : s \in Rep}

OnlyDistinctAdds ==
  /\ \A s \in Rep : \A i \in 1..Len(log[s]) : log[s][i].op \in {"ensureLocalUser", "addPath"}
  /\ \A x, y \in AddPathUpdates : x # y => log[x[1]][x[2]].arg # log[y[1]][y[2]].arg

\* C9: when strokes with distinct ids were added, by whomever and in whatever
\* interleaving, and every update is merged, each participant shows exactly the added
\* strokes, each once, in the same order as every other participant.
C9AddsConvergeToUnion ==
  (OnlyDistinctAdds /\ Quiescent) =>
    /\ \A r \in Rep :
         /\ Range(pub[r].paths) = {log[x[1]][x[2]].items[1].item.val : x \in AddPathUpdates}
         /\ Len(pub[r].paths) = Cardinality(AddPathUpdates)
    /\ \A r, s \in Rep : pub[r].paths = pub[s].paths

\* two participants each added a stroke before merging the other's, and all is merged
C9Witness ==
  /\ OnlyDistinctAdds /\ Quiescent
  /\ \E i \in 1..Len(log[1]), j \in 1..Len(log[2]) :
       /\ log[1][i].op = "addPath" /\ log[2][j].op = "addPath"
       /\ log[1][i].dep[2] < j /\ log[2][j].dep[1] < i
  /\ Len(pub[1].paths) = 2

----------------------------------------------------------------------------
(* Properties of the note operations, under SpecNotes *)

\* the store calls of one kind that sent updates, each as <<participant, n>>
Calls(op) ==
  UNION {{<<s, log[s][i].n>> : i \in {j \in 1..Len(log[s]) : log[s][j].op = op}} : s \in Rep}

ArgOf(c) == log[c[1]][c[2] + 1].arg

DepOf(c) == log[c[1]][c[2] + 1].dep

\* neither call had merged anything of the other
Concurrent(a, b) == a[1] # b[1] /\ DepOf(a)[b[1]] <= b[2] /\ DepOf(b)[a[1]] <= a[2]

\* the call x was made knowing every update of the call c
Knows(x, c) ==
  LET last == CHOOSE i \in CallOf(c[1], c[2]) : \A j \in CallOf(c[1], c[2]) : j <= i
  IN IF x[1] = c[1] THEN x[2] >= last ELSE DepOf(x)[c[1]] >= last

OnlyOps(ops) ==
  \A s \in Rep : \A i \in 1..Len(log[s]) : log[s][i].op \in ops \cup {"ensureLocalUser"}

NoteShown(r, id) == CHOOSE note \in pub[r].notes : note.id = id

\* another participant's deleteNote has been merged by r
DeletedByOther(r) ==
  \E s \in Rep \ {r} : \E i \in 1..applied[r][s] : log[s][i].op = "deleteNote"

\* C5: updateNote and deleteNote called for a note that another participant has
\* deleted, and that is no longer in the caller's store, change neither the note
\* contents nor the note positions, and publish nothing new.
C5AbsentIdIsNoOp ==
  [][\A r \in Rep, id \in NoteIds :
       ( /\ doc[r][<<"notes", id>>] # <<>>
         /\ ~YMapHas(doc[r], "notes", id)
         /\ DeletedByOther(r)
         /\ UpdateNote(r, StaleNote(r, id)) \/ DeleteNote(r, id) )
       => /\ YMapHas(doc'[r], "notes", id) = YMapHas(doc[r], "notes", id)
          /\ YMapHas(doc'[r], "notes_meta", id) = YMapHas(doc[r], "notes_meta", id)
          /\ pub'[r] = pub[r]]_vars

\* C6: a note was created, then dragged by one participant and given a text by
\* another, both having merged the whole creation and neither the other's call,
\* and nothing else was done: once all is merged, every participant shows the
\* dragged position and the typed text.
C6DragAndTextBothSurvive ==
  \A a \in Calls("dragNote"), b \in Calls("editNoteText") :
    ( /\ Quiescent
      /\ OnlyOps({"addNote", "dragNote", "editNoteText"})
      /\ Calls("dragNote") = {a} /\ Calls("editNoteText") = {b}
      /\ \A c \in Calls("addNote") : Knows(a, c) /\ Knows(b, c)
      /\ ArgOf(b).height = NewNote(ArgOf(b).id).height
      /\ Concurrent(a, b)
      /\ ArgOf(a).id = ArgOf(b).id )
    => \A r \in Rep :
         /\ \E note \in pub[r].notes : note.id = ArgOf(a).id
         /\ NoteShown(r, ArgOf(a).id).x = ArgOf(a).x
         /\ NoteShown(r, ArgOf(a).id).text = ArgOf(b).text

\* what updateNote leaves to be observed of a note
NoteView(rs, id) ==
  [shown |-> {note \in rs.p.notes : note.id = id},
   has |-> YMapHas(rs.d, "notes", id),
   content |-> YMapGet(rs.d, "notes", id),
   hasMeta |-> YMapHas(rs.d, "notes_meta", id),
   meta |-> YMapGet(rs.d, "notes_meta", id)]

\* the payloads a caller can hold: a shown note moved or retyped, or a stale one
NotePayloads(r) ==
  {[note EXCEPT !.x = DragX(r)] : note \in pub[r].notes}
    \cup {[note EXCEPT !.text = TextOf(r)] : note \in pub[r].notes}
    \cup {StaleNote(r, id) : id \in NoteIds}

\* C7: in every state, updateNote(n) applied twice leaves the same published note and
\* the same replicated content and position as updateNote(n) applied once.
C7UpdateNoteIdempotent ==
  \A r \in Rep : \A n \in NotePayloads(r) :
    LET once == UpdateNoteOp(RS(r), r, n)
        twice == UpdateNoteOp(once, r, n)
    IN NoteView(twice, n.id) = NoteView(once, n.id)

\* a participant has called updateNote twice in a row with one payload, and both
\* calls wrote
C7Witness ==
  \E r \in Rep : \E i \in 1..Len(log[r]), j \in 1..Len(log[r]) :
    /\ log[r][i].op = "updateNote" /\ log[r][j].op = "updateNote"
    /\ log[r][i].n < log[r][j].n
    /\ log[r][i].arg = log[r][j].arg
    /\ \A k \in i..j : log[r][k].op = "updateNote"

\* C10: a note was created and then given a text by two participants, both
\* having merged the whole creation and neither the other's call, and nothing else
\* was done: once all is merged every participant shows the note, with the same
\* text, one of the two typed.
C10ConcurrentTextsLastWriterWins ==
  \A a \in Calls("editNoteText"), b \in Calls("editNoteText") :
    ( /\ Quiescent
      /\ OnlyOps({"addNote", "editNoteText"})
      /\ Calls("editNoteText") = {a, b}
      /\ \A c \in Calls("addNote") : Knows(a, c) /\ Knows(b, c)
      /\ Concurrent(a, b)
      /\ ArgOf(a).id = ArgOf(b).id
      /\ ArgOf(a).text # ArgOf(b).text )
    => /\ \A r \in Rep :
            /\ \E note \in pub[r].notes : note.id = ArgOf(a).id
            /\ NoteShown(r, ArgOf(a).id).text \in {ArgOf(a).text, ArgOf(b).text}
       /\ \A r, s \in Rep : NoteShown(r, ArgOf(a).id).text = NoteShown(s, ArgOf(a).id).text

\* both participants typed into the note before merging the other's text, and all
\* is merged
C10Witness ==
  /\ Quiescent
  /\ OnlyOps({"addNote", "editNoteText"})
  /\ \E a \in Calls("editNoteText"), b \in Calls("editNoteText") :
       /\ Concurrent(a, b)
       /\ ArgOf(a).text # ArgOf(b).text
       /\ NoteShown(1, ArgOf(a).id).text = ArgOf(b).text
       /\ NoteShown(2, ArgOf(a).id).text = ArgOf(b).text

----------------------------------------------------------------------------
(* Properties of the whole board, under SpecBoard and SpecClear *)

\* C1: whenever every participant has merged every update of every store call,
\* in whatever order the updates arrived, all participants publish the same
\* strokes (in the same order) and the same notes, images and files (by id).
C1Convergence ==
  Quiescent => \A r, s \in Rep : pub[r] = pub[s]

\* two calls of different participants, neither aware of the other, are merged
\* everywhere and something is left on the board
C1Witness ==
  /\ Quiescent
  /\ \E i \in 2..Len(log[1]), j \in 2..Len(log[2]) :
       log[1][i].dep[2] < j /\ log[2][j].dep[1] < i
  /\ pub[1].paths # <<>> \/ pub[1].notes # {} \/ pub[1].images # {} \/ pub[1].files # {}

AllEmpty(snapshot) ==
  snapshot.paths = <<>> /\ snapshot.notes = {} /\ snapshot.images = {} /\ snapshot.files = {}

\* C4: clearBoard is one transaction: the call publishes at most one snapshot and
\* sends at most one update, the snapshot it leaves has all four collections empty,
\* and a participant holds of a clearBoard either all its deletions or none of them
\* (no item it removes is gone unless another merged update removed it);
\* what is published is always the whole document.
C4ClearBoardAtomic ==
  /\ \A r \in Rep : pub[r] = SyncData(doc[r])
  /\ \A r \in Rep :
       LET res == ClearBoardOp(RS(r), r)
       IN Len(res.tr) <= 1 /\ Len(res.out) <= 1 /\ AllEmpty(res.p)
  /\ \A s \in Rep : \A r \in Rep, i \in 1..Len(log[s]) :
       log[s][i].op = "clearBoard" =>
         LET call == CallOf(s, log[s][i].n)
             olds == UNION {log[s][j].dels : j \in call}
             Gone(x) == \E k \in 1..Len(doc[r][x[1]]) :
                          doc[r][x[1]][k].id = x[2] /\ doc[r][x[1]][k].del
             ByOther(x) == \E y \in Merged(r) :
                             ~(y[1] = s /\ y[2] \in call) /\ x \in log[y[1]][y[2]].dels
         IN \/ \A x \in olds : Gone(x)
            \/ \A x \in olds : Gone(x) => ByOther(x)

\* a clearBoard that emptied all four collections has been merged by the other
\* participant, who shows an empty board too
C4Witness ==
  \E s \in Rep : \E r \in Rep \ {s}, i \in 1..Len(log[s]) :
    /\ log[s][i].op = "clearBoard"
    /\ {"paths", "notes", "images", "files"} \subseteq {x[1][1] : x \in log[s][i].dels}
    /\ applied[r][s] >= i
    /\ AllEmpty(pub[r]) /\ AllEmpty(pub[s])

----------------------------------------------------------------------------
(* Properties of the canvas engine: drawing and erasing, under SpecPen *)

\* participant r is in the middle of a Pen gesture
PenGesture(r) ==
  /\ ui[r].tool = "PEN"
  /\ ui[r].isDrawing
  /\ ui[r].currentPathPoints # <<>>
  /\ ui[r].resizeItem = <<>>
  /\ ui[r].pathTransform = <<>>
  /\ ui[r].selectionRect = <<>>

\* the engine of participant r is idle: nothing drawn, nothing captured
Idle(r) ==
  /\ ~ui[r].isDrawing
  /\ ui[r].currentPathPoints = <<>>
  /\ ~ui[r].captured

\* the step leaves every document, every published snapshot and every update
\* sent as they were
StoreUntouched == doc' = doc /\ pub' = pub /\ log' = log

\* C11: a pointer-cancel during a Pen gesture in progress discards the buffered
\* points without committing them: no addPath is issued and the document store
\* is left untouched; afterwards the buffer is empty and the engine is idle.
C11CancelDiscardsBuffer ==
  [][\A r \in Rep :
       (PenGesture(r) /\ PointerCancel(r)) => (StoreUntouched /\ Idle(r)')]_vars

\* the strokes participant r has committed with the pen, as they were sent
Committed(r) ==
  {log[r][i].items[1].item.val : i \in {k \in 1..Len(log[r]) : log[r][k].op = "addPath"}}

\* C12: in a Pen gesture the pointer-down starts the buffer with its point, every
\* pointer-move adds its point at the end, and neither writes to the store; the
\* pointer-up issues exactly one addPath, whose points are the buffer (the down
\* point followed by the moved points in the order they came), and leaves the
\* buffer empty and the engine idle.
C12PenGestureCommitsOnce ==
  [][\A r \in Rep :
       /\ \A pos \in DrawPoints :
            (ui[r].tool = "PEN" /\ PointerDown(r, pos)) =>
              /\ StoreUntouched
              /\ ui'[r].isDrawing
              /\ ui'[r].currentPathPoints = <<pos>>
       /\ \A pos \in DrawPoints :
            (PenGesture(r) /\ PointerMove(r, pos)) =>
              /\ StoreUntouched
              /\ ui'[r].isDrawing
              /\ ui'[r].currentPathPoints = Append(ui[r].currentPathPoints, pos)
       /\ (PenGesture(r) /\ PointerUp(r)) =>
            /\ Len(log'[r]) = Len(log[r]) + 1
            /\ SubSeq(log'[r], 1, Len(log[r])) = log[r]
            /\ log'[r][Len(log'[r])].op = "addPath"
            /\ Len(log'[r][Len(log'[r])].items) = 1
            /\ log'[r][Len(log'[r])].dels = {}
            /\ log'[r][Len(log'[r])].items[1].item.val.points = ui[r].currentPathPoints
            /\ Len(pub'[r].paths) = Len(pub[r].paths) + 1
            /\ SubSeq(pub'[r].paths, 1, Len(pub[r].paths)) = pub[r].paths
            /\ pub'[r].paths[Len(pub'[r].paths)].points = ui[r].currentPathPoints
            /\ \A q \in Rep \ {r} : doc'[q] = doc[q] /\ log'[q] = log[q]
            /\ Idle(r)']_vars

\* a stroke of three points, not all the same, has been committed and the engine
\* is idle again
C12Witness ==
  \E r \in Rep : \E path \in Committed(r) :
    /\ Len(path.points) = 3
    /\ path.points[1] # path.points[2]
    /\ path.points[2] # path.points[3]
    /\ Idle(r)

\* participant r erases: the eraser is down and nothing else is in progress
Erasing(r) ==
  /\ ui[r].tool = "ERASER"
  /\ ui[r].isDrawing
  /\ ui[r].resizeItem = <<>>
  /\ ui[r].pathTransform = <<>>
  /\ ui[r].selectionRect = <<>>

\* some segment of the stroke is less than 20 away from pos
NearStroke(pos, path) ==
  \E i \in 1..Len(path.points) : \E j \in 1..Len(path.points) :
    /\ j = i + 1
    /\ DistBelow(distToSegment(pos, path.points[i], path.points[j]), 20)

\* C13: one erase at a point removes every rendered stroke with a segment less
\* than 20 away from the point and leaves every stroke whose segments are all 20
\* or more away as it was, in the document and in the published snapshot.
C13EraserCompleteness ==
  [][\A r \in Rep : \A pos \in ErasePoints :
       (\/ ui[r].tool = "ERASER" /\ PointerDown(r, pos)
        \/ Erasing(r) /\ PointerMove(r, pos)) =>
         LET Far(path) == ~NearStroke(pos, path)
         IN /\ pub'[r].paths = SelectSeq(pub[r].paths, Far)
            /\ ToArray(doc'[r][<<"paths", "-">>]) = SelectSeq(pub[r].paths, Far)]_vars

\* an erase has removed a stroke the other participant had drawn
C13Witness ==
  \E r \in Rep : \E i \in 1..Len(log[r]) :
    /\ log[r][i].op = "eraseAt"
    /\ \E x \in log[r][i].dels : x[1] = <<"paths", "-">> /\ x[2][1] # r

(***************************************************************************)
(* Properties of the canvas engine: selecting and transforming strokes,    *)
(* under SpecSelect                                                        *)
(***************************************************************************)

\* the marquee participant r is dragging, as the rectangle normalizeRect gives
Marquee(r) == normalizeRect(ui[r].selectionRect[1].start, ui[r].selectionRect[1].end)

\* the ids of the strokes participant r is shown whose bounding box intersects rect
Intersecting(r, rect) ==
  {pub[r].paths[k].id :
     k \in {j \in 1..Len(pub[r].paths) : rectsIntersect(getPathBounds(pub[r].paths[j]), rect)}}

Selection(u) == {u.selectedPathIds[k] : k \in 1..Len(u.selectedPathIds)}

\* C14: at the pointer-up of a marquee with rectangle R the selection becomes
\* exactly the set of strokes whose bounding box intersects R, except that a
\* rectangle smaller than 4x4 selects nothing and leaves the selection empty.
C14MarqueeSelectsIntersecting ==
  [][\A r \in Rep :
       IF ui[r].selectionRect # <<>> /\ handlePointerUp(r)
       THEN Selection(ui'[r]) = IF Marquee(r).width < 4 /\ Marquee(r).height < 4
                                THEN {}
                                ELSE Intersecting(r, Marquee(r))
       ELSE TRUE]_vars

\* every version of a stroke the document of participant r holds, deleted or not
StrokeVersions(r) ==
  {doc[r][<<"paths", "-">>][i].val : i \in 1..Len(doc[r][<<"paths", "-">>])}

\* C17: a stroke's points are never truncated: all versions of a stroke, from
\* its commit through every move and resize, in every document and on every
\* page, have the same number of points, and at least one.
C17PointsNeverTruncated ==
  \A r, s \in Rep :
    \A a \in StrokeVersions(r) :
      /\ Len(a.points) >= 1
      /\ \A b \in StrokeVersions(s) : a.id = b.id => Len(a.points) = Len(b.points)
      /\ \A k \in 1..Len(pub[s].paths) :
           a.id = pub[s].paths[k].id => Len(a.points) = Len(pub[s].paths[k].points)

\* a stroke that was committed and then transformed twice, a resize among them
C17Witness ==
  \E r \in Rep : \E i, j \in 1..Len(log[r]) :
    /\ i < j
    /\ log[r][i].op = "transformPaths"
    /\ log[r][j].op = "transformPaths"
    /\ Cardinality({a \in StrokeVersions(r) : a.id = "p1"}) >= 3
    /\ \E a, b \in StrokeVersions(r) :
         /\ a.id = "p1"
         /\ b.id = "p1"
         /\ a.points[2][1] - a.points[1][1] # b.points[2][1] - b.points[1][1]

(***************************************************************************)
(* Properties of the canvas engine: dragging and resizing items, under     *)
(* SpecItems                                                               *)
(***************************************************************************)

\* participant r drags an item it is shown: a pointer-move will move it
Dragging(r) ==
  /\ isSelectTool(ui[r].tool)
  /\ ui[r].resizeItem = <<>>
  /\ ui[r].dragItem # <<>>
  /\ FindItem(pub[r], ui[r].dragItem[1].type, ui[r].dragItem[1].id) # <<>>

\* C15: an item grabbed at pointer position p0 and dragged to p1 is put at its
\* grab-time position plus (p1 - p0), its width, height and content unchanged:
\* the grab records p0 minus the item's position and writes nothing, and every
\* move puts the item at the pointer minus what the grab recorded.
C15DragMovesByPointerDelta ==
  [][\A r \in Rep :
       /\ \A key \in ItemKeys : \A pos \in GrabPoints :
            ItemPointerDown(r, key[1], key[2], pos) =>
              LET item == FindItem(pub[r], key[1], key[2])[1]
              IN /\ StoreUntouched
                 /\ ui'[r].dragItem[1].type = key[1]
                 /\ ui'[r].dragItem[1].id = key[2]
                 /\ item.x + ui'[r].dragItem[1].offsetX = pos[1]
                 /\ item.y + ui'[r].dragItem[1].offsetY = pos[2]
       /\ \A pos \in ItemMovePoints :
            (Dragging(r) /\ PointerMove(r, pos)) =>
              LET dg == ui[r].dragItem[1]
                  before == FindItem(pub[r], dg.type, dg.id)[1]
              IN FindItem(pub'[r], dg.type, dg.id) =
                   <<[before EXCEPT !.x = pos[1] - dg.offsetX, !.y = pos[2] - dg.offsetY]>>]_vars

\* the note created at (100, 100) with size 200x50, grabbed at (150, 120) and
\* dragged by (20, -10), is at (120, 90) with size 200x50
C15Witness ==
  /\ \E i \in 1..Len(log[1]) : log[1][i].op = "dragItem"
  /\ ui[1].dragItem # <<>>
  /\ ui[1].dragItem[1].offsetX = 50
  /\ ui[1].dragItem[1].offsetY = 20
  /\ \E n \in pub[1].notes :
       n.id = "n1" /\ n.x = 120 /\ n.y = 90 /\ n.width = 200 /\ n.height = 50

\* the records of notes, images and files, with their positions and sizes, that
\* the document of participant r holds
StoredItems(r) ==
  UNION {{YMapGet(doc[r], ty, k) : k \in {j \in KeysOf(ty) : YMapHas(doc[r], ty, j)}} :
           ty \in {"notes", "notes_meta", "images", "images_meta", "files", "files_meta"}}

BigEnough(item) == item.width >= 50 /\ item.height >= 50

\* C16: in every reachable state every note, image and file, as the documents
\* hold it and as the pages show it, is at least 50 wide and at least 50 high.
C16ItemsAtLeast50 ==
  \A r \in Rep :
    /\ \A item \in StoredItems(r) : BigEnough(item)
    /\ \A item \in pub[r].notes \cup pub[r].images \cup pub[r].files : BigEnough(item)

\* an item resized to less than 50 in a dimension was clamped to 50 in it
C16Witness ==
  /\ ui[1].resizeItem # <<>>
  /\ \E i \in 1..Len(log[1]) : log[1][i].op = "resizeItem"
  /\ \E item \in pub[1].notes \cup pub[1].images \cup pub[1].files :
       /\ item.id = ui[1].resizeItem[1].id
       /\ item.width = 50
       /\ ui[1].resizeItem[1].startWidth > 50

(***************************************************************************)
(* Properties of the identity ledger, under SpecNotes                      *)
(***************************************************************************)

\* the join order of a durable user id in a document: its index in user_order
\* without duplicates, or -1
JoinOrder(d, userId) == IndexOf(Dedupe(ToArray(d[<<"user_order", "-">>]), <<>>), userId)

\* C18: the join order of the ledger is never reassigned: once a durable user id
\* has a join order in a participant's document, no join, reconnection or merge
\* changes it there.
C18OrderNeverReassigned ==
  [][\A r \in Rep : \A userId \in UserIds :
       JoinOrder(doc[r], userId) >= 0 =>
         JoinOrder(doc'[r], userId) = JoinOrder(doc[r], userId)]_vars

\* awareness.setLocalStateField('user', ...): the colour participant r broadcasts
\* in its presence record
PresenceColor(r) == localUser[r].color

\* C19: a participant's colour is the palette entry of its join order and is the
\* same everywhere: once every update has reached every participant, the colour
\* in its presence record is the palette entry of its join order, and every
\* page shows its notes in that colour.
C19OneColorEverywhere ==
  Quiescent =>
    \A r \in Rep :
      /\ PresenceColor(r) = PaletteColor(JoinOrder(doc[r], UserId(r)))
      /\ \A s \in Rep : \A n \in pub[s].notes :
           n.authorId = UserId(r) => n.color = PresenceColor(r)

(***************************************************************************)
(* Properties of the connection, under SpecConnect                         *)
(***************************************************************************)

\* C20: connect is idempotent: however often a participant's effect has run,
\* with the same or with other parameters, at most one provider and document
\* are live and they are the pair made last, the participant has at most one
\* presence entry, and every provider made earlier has been destroyed.
C20AtMostOneLiveConnection ==
  \A r \in Rep :
    /\ Cardinality(conn[r].live) <= 1
    /\ conn[r].docs = conn[r].live
    /\ Cardinality(conn[r].presence) <= 1
    /\ conn[r].presence \subseteq conn[r].live
    /\ \A p \in 1..(conn[r].made - 1) : p \notin conn[r].live
    /\ conn[r].roomId # "" => conn[r].live = {conn[r].made}

\* a participant that has connected three times with the same room and passcode
C20Witness ==
  \E r \in Rep :
    /\ conn[r].made >= 3
    /\ conn[r].roomId = "room"
    /\ conn[r].passcode = ""
    /\ conn[r].live = {conn[r].made}
    /\ conn[r].presence = {conn[r].made}

(***************************************************************************)
(* Properties of the select tool: pressing on a stroke and transforming,   *)
(* under SpecSelect                                                        *)
(***************************************************************************)

\* the stroke has a segment within 8 of pos
Within8(pos, path) ==
  \E i \in 1..(Len(path.points) - 1) :
    DistAtMost(distToSegment(pos, path.points[i], path.points[i + 1]), 8)

\* the ids in a sequence of strokes or of ids
IdsOf(strokes) == {strokes[k].id : k \in 1..Len(strokes)}

\* C27: with a select tool, a pointer-down within 8 of a segment of a rendered
\* stroke selects one such stroke alone if it was not selected, or keeps the
\* selection (its strokes still on the page) if it was, and starts a transform
\* in move mode at the down point over exactly the selected strokes as they are
\* on the page; a pointer-down within 8 of no stroke empties the selection and
\* starts a marquee from the down point to itself. Neither touches the store.
C27PressSelectsOrStartsMarquee ==
  [][\A r \in Rep : \A pos \in DownPoints :
       (isSelectTool(ui[r].tool) /\ PointerDown(r, pos)) =>
         LET shown == pub[r].paths
             near == {k \in 1..Len(shown) : Within8(pos, shown[k])}
             before == Range(ui[r].selectedPathIds)
             after == Range(ui'[r].selectedPathIds)
         IN /\ StoreUntouched
            /\ IF near = {}
               THEN /\ ui'[r].selectedPathIds = <<>>
                    /\ ui'[r].selectionRect = <<[start |-> pos, end |-> pos]>>
                    /\ ui'[r].pathTransform = ui[r].pathTransform
               ELSE /\ \E k \in near :
                         IF shown[k].id \in before
                         THEN after = before \cap IdsOf(shown)
                         ELSE after = {shown[k].id}
                    /\ ui'[r].selectionRect = ui[r].selectionRect
                    /\ ui'[r].pathTransform # <<>>
                    /\ ui'[r].pathTransform[1].mode = "move"
                    /\ ui'[r].pathTransform[1].start = pos
                    /\ IdsOf(ui'[r].pathTransform[1].originPaths) = after
                    /\ Len(ui'[r].pathTransform[1].originPaths) = Cardinality(after)
                    /\ \A k \in 1..Len(ui'[r].pathTransform[1].originPaths) :
                         \E j \in 1..Len(shown) :
                           shown[j] = ui'[r].pathTransform[1].originPaths[k]]_vars

\* a press at (5, 0), on the first stroke, has kept a selection of two strokes
\* and started to move both
C27Witness ==
  /\ ui[1].pathTransform # <<>>
  /\ ui[1].pathTransform[1].mode = "move"
  /\ ui[1].pathTransform[1].start = <<5, 0>>
  /\ Len(ui[1].pathTransform[1].originPaths) = 2
  /\ Len(ui[1].selectedPathIds) = 2
  /\ Within8(<<5, 0>>, ui[1].pathTransform[1].originPaths[1])

\* participant r transforms strokes: nothing handlePointerMove looks at first
\* is in progress
Transforming(r) ==
  /\ ui[r].pathTransform # <<>>
  /\ ui[r].resizeItem = <<>>
  /\ ui[r].dragItem = <<>>

\* the strokes of the page after an updatePaths of the strokes updated
Replaced(shown, updated) ==
  [j \in 1..Len(shown) |->
     IF \E k \in 1..Len(updated) : updated[k].id = shown[j].id
     THEN updated[CHOOSE k \in 1..Len(updated) : updated[k].id = shown[j].id]
     ELSE shown[j]]

\* C28: while strokes are transformed, every pointer-move sends one update, of
\* one updatePaths call for all strokes of the transform, which puts each of
\* them on the page with the points it had when the gesture started, moved by
\* the pointer's distance from the start or resized by it, and leaves the
\* transform as it was; the pointer-up ends the transform and leaves the store
\* as it was.
C28TransformIsLive ==
  [][\A r \in Rep :
       /\ \A pos \in MovePoints :
            (Transforming(r) /\ PointerMove(r, pos)) =>
              LET tf == ui[r].pathTransform[1]
                  dx == pos[1] - tf.start[1]
                  dy == pos[2] - tf.start[2]
                  updated == IF tf.mode = "move" THEN MovedBy(tf.originPaths, dx, dy)
                             ELSE ResizedBy(tf.originPaths, tf.bounds, dx, dy)
              IN /\ Len(log'[r]) = Len(log[r]) + 1
                 /\ SubSeq(log'[r], 1, Len(log[r])) = log[r]
                 /\ log'[r][Len(log'[r])].arg = IdsOf(tf.originPaths)
                 /\ pub'[r].paths = Replaced(pub[r].paths, updated)
                 /\ ui'[r].pathTransform = ui[r].pathTransform
       /\ (Transforming(r) /\ PointerUp(r)) =>
            /\ StoreUntouched
            /\ ui'[r].pathTransform = <<>>]_vars

\* two strokes are being transformed and a pointer-move has put both on the
\* page with other points than they started with
C28Witness ==
  /\ Transforming(1)
  /\ Len(ui[1].pathTransform[1].originPaths) = 2
  /\ \E i \in 1..Len(log[1]) :
       /\ log[1][i].op = "transformPaths"
       /\ log[1][i].arg = {"p1", "p2"}
  /\ \A k \in 1..2 :
       \E j \in 1..Len(pub[1].paths) :
         /\ pub[1].paths[j].id = ui[1].pathTransform[1].originPaths[k].id
         /\ pub[1].paths[j].points # ui[1].pathTransform[1].originPaths[k].points

(***************************************************************************)
(* The resize there and back, under SpecResize                             *)
(***************************************************************************)

\* the stroke of the page of participant r with the id of path, <<>> if none
ShownAs(r, path) ==
  LET Same(q) == q.id = path.id IN SelectSeq(pub[r].paths, Same)

\* a and b have boxes of the same width and height
SameSize(a, b) ==
  /\ getPathBounds(a).width = getPathBounds(b).width
  /\ getPathBounds(a).height = getPathBounds(b).height

Reported(r) ==
  <<conn[r].connectionError, conn[r].isConnected, conn[r].isAuthenticating>>

\* C23: once the provider has reported 'connected', or a connection-error or
\* connection-close has failed the attempt, the timer of that attempt changes
\* nothing of connectionError, isConnected and isAuthenticating when it runs
\* out.
C23TimeoutCancelled ==
  [][\A r \in Rep :
       (AuthTimeout(r) /\ (conn[r].didConnect \/ conn[r].connectionError # "")) =>
         Reported(r)' = Reported(r)]_vars

\* C24: a connection-error, a connection-close or the timer running out
\* leaves connectionError as it was, so that App does not log out on it.
C24TransportErrorKeepsSession ==
  [][\A r \in Rep :
       (ConnectionError(r) \/ ConnectionClose(r) \/ AuthTimeout(r)) =>
         conn'[r].connectionError = conn[r].connectionError]_vars

\* C25: a login from the login screen leaves the participant in the session
\* it asked for, whatever an earlier attempt left behind.
C25LoginStartsAfresh ==
  [][\A r \in Rep : \A passcode \in Passcodes :
       Login(r, passcode) =>
         /\ conn'[r].roomId = "room"
         /\ conn'[r].effect # 0
         /\ conn'[r].loginError = ""]_vars

(***************************************************************************)
(* The passcode heuristic, under SpecHeuristic                             *)
(***************************************************************************)

C21LeaveClearsCursor ==
  [][\A r \in Rep : PointerLeave(r) => ui'[r].cursor = <<>>]_vars

(***************************************************************************)
(* Properties of the eraser and of the items under the pen and the eraser, *)
(* under SpecErase                                                         *)
(***************************************************************************)

\* the box an item is hit in (an image without a height is 200 high)
BoxHeight(item) == IF item.height = 0 THEN 200 ELSE item.height

\* C26 as stated: with the eraser every pointer-down, whatever the answer to
\* the dialog it opens, leaves the engine erasing.
C26EveryDownErases ==
  \A r \in Rep : \A confirmed \in BOOLEAN :
    (ui[r].tool = "ERASER" /\ ~ui[r].isDrawing) =>
      AfterEraserDown(ui[r], confirmed).isDrawing

\* C26, amended: with the eraser every pointer-down whose confirmation dialog
\* is accepted deletes the strokes with a segment less than the eraser radius
\* from the down point and the notes, images and files whose rectangle holds
\* it, and leaves the engine erasing; every pointer-move while erasing does the
\* same at its point; the engine stops erasing only by a pointer-up, which
\* leaves it idle and the store as it was.
C26EraserGesture ==
  [][\A r \in Rep :
       /\ \A pos \in ErasePoints2 :
            (\/ ui[r].tool = "ERASER" /\ budget > 0 /\ EraserDown(r, pos, TRUE)
             \/ Erasing(r) /\ PointerMove(r, pos)) =>
              LET Far(path) == ~NearStroke(pos, path)
                  Off(item) == ~OnItem(pos, item, BoxHeight(item))
              IN /\ pub'[r].paths = SelectSeq(pub[r].paths, Far)
                 /\ pub'[r].notes = {n \in pub[r].notes : Off(n)}
                 /\ pub'[r].images = {n \in pub[r].images : Off(n)}
                 /\ pub'[r].files = {n \in pub[r].files : Off(n)}
                 /\ Erasing(r)'
       /\ (Erasing(r) /\ ~Erasing(r)') => PointerUp(r)
       /\ (Erasing(r) /\ PointerUp(r)) => (Idle(r)' /\ StoreUntouched)]_vars

\* the eraser is down after one erase that removed a stroke and an image
C26Witness ==
  /\ Erasing(1)
  /\ \E i \in 1..Len(log[1]) : \E j \in 1..Len(log[1]) :
       /\ log[1][i].op = "eraseAt"
       /\ log[1][j].op = "eraseAt"
       /\ log[1][i].n = log[1][j].n
       /\ \E x \in log[1][i].dels : x[1][1] = "paths"
       /\ \E x \in log[1][j].dels : x[1][1] = "images"

\* C30: while the pen or the eraser is the tool, no step puts an item into
\* dragItem or resizeItem, and a pointer-down inside a rendered note, image or
\* file is the step of the container's handlePointerDown at that point.
C30ItemsLetPenThrough ==
  [][\A r \in Rep :
       isPenOrEraser(ui[r].tool) =>
         /\ ui'[r].dragItem # <<>> => ui'[r].dragItem = ui[r].dragItem
         /\ ui'[r].resizeItem # <<>> => ui'[r].resizeItem = ui[r].resizeItem
         /\ \A key \in ItemKeys : \A pos \in ErasePoints2 :
              PressItem(r, key[1], key[2], pos) => PointerDown(r, pos)]_vars

\* the pen came down inside the image and the file, and started a stroke there
C30Witness ==
  /\ ui[1].tool = "PEN"
  /\ ui[1].isDrawing
  /\ ui[1].dragItem = <<>>
  /\ ui[1].resizeItem = <<>>
  /\ Len(ui[1].currentPathPoints) = 1
  /\ \E n \in pub[1].images : OnItem(ui[1].currentPathPoints[1], n, BoxHeight(n))
  /\ \E n \in pub[1].files : OnItem(ui[1].currentPathPoints[1], n, BoxHeight(n))

(***************************************************************************)
(* Selected strokes that are deleted, under SpecGone                       *)
(***************************************************************************)

\* the ids of the strokes in the store of participant r
StoredPathIds(r) == {it.val.id : it \in {x \in Range(PathItems(doc[r])) : IsLive(x)}}

\* no selected stroke of participant r is in its store
AllGone(r) == Range(ui[r].selectedPathIds) \cap StoredPathIds(r) = {}

\* the box around the selection is on the page of participant r
SelectionBoxShown(r) == isSelectTool(ui[r].tool) /\ selectedBounds(ui[r], pub[r]) # <<>>

\* C31: whenever no selected stroke id is in the store any more, deleted by
\* the participant or by a peer, the selection bounds are null and no box is
\* drawn around the selection, and no step is a pointer-down on that box or on
\* its handle: no transform starts over the selection.
C31NothingSelectedWhenAllDeleted ==
  /\ [](\A r \in Rep : AllGone(r) =>
          (selectedBounds(ui[r], pub[r]) = <<>> /\ ~SelectionBoxShown(r)))
  /\ [][\A r \in Rep : AllGone(r) =>
          /\ \A pos \in DownPoints :
               /\ ~SelectionMovePointerDown(r, pos)
               /\ ~SelectionResizePointerDown(r, pos)
          /\ (ui'[r].pathTransform # <<>> /\ ui'[r].pathTransform # ui[r].pathTransform) =>
               ui'[r].selectedPathIds # ui[r].selectedPathIds]_vars

\* two strokes are selected with a select tool, nothing is in progress, and
\* both have been deleted, by a peer's deletePaths or by the clearBoard of the
\* participant
C31Witness ==
  /\ isSelectTool(ui[1].tool)
  /\ Len(ui[1].selectedPathIds) = 2
  /\ ui[1].pathTransform = <<>>
  /\ ui[1].selectionRect = <<>>
  /\ AllGone(1)
  /\ \/ \E i \in 1..applied[1][2] : log[2][i].op = "deletePaths"
     \/ \E i \in 1..Len(log[1]) : log[1][i].op = "clearBoard"

(***************************************************************************)
(* The content of images and files, under SpecContent                      *)
(***************************************************************************)

\* the content of the image or the file in the store of participant r, <<>> if
\* the store does not hold it
StoredContent(r, ty, id) ==
  IF ~YMapHas(doc[r], ty, id) THEN <<>>
  ELSE IF ty = "images" THEN <<YMapGet(doc[r], ty, id).src>>
  ELSE <<YMapGet(doc[r], ty, id).data, YMapGet(doc[r], ty, id).fileName,
         YMapGet(doc[r], ty, id).fileType>>

\* an image or a file of the page without its place and size
Placeless(item) == [item EXCEPT !.x = 0, !.y = 0, !.width = 0, !.height = 0]

\* C32: as long as the store of a participant holds an image or a file, no
\* step, an updateImage or updateFile of the participant with any payload or
\* the merge of a peer's, changes its src, or its data, fileName and fileType;
\* and an updateImage or updateFile of an item the participant holds changes
\* nothing of the item on its page but x, y, width and height.
C32ContentWrittenOnce ==
  [][\A r \in Rep :
       /\ \A key \in {<<"images", "i1">>, <<"files", "f1">>} :
            (StoredContent(r, key[1], key[2]) # <<>>
               /\ StoredContent(r, key[1], key[2])' # <<>>) =>
              StoredContent(r, key[1], key[2])' = StoredContent(r, key[1], key[2])
       /\ \A content \in {NewImage("i1").src, OtherSrc} :
            /\ (YMapHas(doc[r], "images", "i1") /\ RewriteImage(r, content)) =>
                 {Placeless(n) : n \in pub'[r].images} = {Placeless(n) : n \in pub[r].images}
            /\ (YMapHas(doc[r], "files", "f1") /\ RewriteFile(r, content)) =>
                 {Placeless(n) : n \in pub'[r].files} = {Placeless(n) : n \in pub[r].files}]_vars

\* the second participant has called updateImage with another src and the
\* first updateFile with other data, each on an item it held; both calls have
\* reached the other participant, whose page shows the items moved and with
\* the content they were added with
C32Witness ==
  /\ \E i \in 1..applied[1][2] :
       /\ log[2][i].op = "updateImage"
       /\ log[2][i].arg.src = OtherSrc
  /\ \E i \in 1..applied[2][1] :
       /\ log[1][i].op = "updateFile"
       /\ log[1][i].arg.data = OtherSrc
  /\ pub[1].images = {[NewImage("i1") EXCEPT !.x = DragX(2)]}
  /\ pub[2].files = {[NewFile("f1") EXCEPT !.y = DragX(1)]}

(***************************************************************************)
(* The note mutations as their observers see them, under SpecNotes         *)
(***************************************************************************)

\* the store calls that add, update and delete a note
NoteCalls == {"addNote", "updateNote", "dragNote", "editNoteText", "deleteNote"}

\* C33: an addNote, an updateNote (one that changes size and text included)
\* and a deleteNote each reach a subscriber as one change: when a participant
\* merges the first update of such a call of a peer, the notes it publishes
\* are the ones it published before or already the ones it publishes with
\* the whole call merged, never the call's meta part or content part alone.
C33NoteMutationsAtomic ==
  \A r \in Rep : \A s \in Rep \ {r} :
    LET j == applied[r][s] + 1
    IN IF j >= Len(log[s]) THEN TRUE
       ELSE (/\ log[s][j].op \in NoteCalls
             /\ log[s][j + 1].n = log[s][j].n
             /\ \A q \in Rep \ {r} : log[s][j].dep[q] <= applied[r][q]) =>
              LET half == ApplyUpdate(doc[r], log[s][j])
                  whole == ApplyUpdate(half, log[s][j + 1])
              IN \/ SyncData(half).notes = pub[r].notes
                 \/ SyncData(half).notes = SyncData(whole).notes

(***************************************************************************)
(* The end of the authenticating phase, under SpecAuthFair                 *)
(***************************************************************************)

\* C34: a 'connected' status, a connection-error, a connection-close and the
\* timer running out each leave isAuthenticating false, and whenever
\* isAuthenticating is true it is false at some later time.
C34AuthenticatingEnds ==
  /\ [][\A r \in Rep :
          (\/ Status(r, "connected")
           \/ ConnectionError(r)
           \/ ConnectionClose(r)
           \/ AuthTimeout(r)) => ~conn'[r].isAuthenticating]_vars
  /\ \A r \in Rep : conn[r].isAuthenticating ~> ~conn[r].isAuthenticating

\* one attempt has ended by the timer, with nothing else reported, the other
\* by a 'connected' status
C34Witness ==
  \E r \in Rep : \E q \in Rep \ {r} :
    /\ conn[r].roomId = "room"
    /\ conn[r].connectionError = "timeout"
    /\ ~conn[r].authTimeout
    /\ ~conn[r].isAuthenticating
    /\ conn[q].roomId = "room"
    /\ conn[q].didConnect
    /\ ~conn[q].isAuthenticating

(***************************************************************************)
(* The teardown of a connection, under SpecTeardown                        *)
(***************************************************************************)

\* what the hook reports of the connection and of the peers
ReportedWithPeers(r) == <<Reported(r), conn[r].remoteUsers>>

\* C35: every provider and document but the ones of the effect run whose
\* cleanup has not run are destroyed, and a timer is pending only for that
\* run: a room change, a parameter change, a logout and an unmount leave
\* nothing of the previous connection. A status, connection-error,
\* connection-close or awareness event of a destroyed provider changes none
\* of isConnected, isAuthenticating, connectionError and remoteUsers.
C35TeardownIsFinal ==
  /\ [](\A r \in Rep :
          /\ conn[r].live \subseteq {conn[r].effect}
          /\ conn[r].docs \subseteq {conn[r].effect}
          /\ conn[r].authTimeout => conn[r].effect # 0)
  /\ [][\A r \in Rep : \A p \in 1..MaxTeardownRuns :
          (\/ \E status \in {"connected", "disconnected"} : LateStatus(r, p, status)
           \/ LateConnectionError(r, p)
           \/ LateConnectionClose(r, p)
           \/ \E users \in {{}, Rep \ {r}} : LateAwarenessChange(r, p, users)) =>
            ReportedWithPeers(r)' = ReportedWithPeers(r)]_vars

\* a participant has changed the passcode while it was connected and seen by
\* its peer: its first provider is destroyed, the second attempt is under way
\* with its timer pending, and the peer it reports is still there
C35Witness ==
  \E r \in Rep :
    /\ conn[r].made = 2
    /\ conn[r].effect = 2
    /\ conn[r].live = {2}
    /\ conn[r].docs = {2}
    /\ conn[r].isAuthenticating
    /\ conn[r].authTimeout
    /\ conn[r].remoteUsers # {}

(***************************************************************************)
(* Strokes under concurrent transforms and deletions, under SpecPaths      *)
(***************************************************************************)

\* every addPath so far added a stroke under an id of its own
FreshAdds ==
  \A x, y \in AddPathUpdates : x # y => log[x[1]][x[2]].arg # log[y[1]][y[2]].arg

\* C36: when every stroke was added under an id of its own, no participant
\* ever shows two strokes with the same id, whatever updatePaths, deletePaths
\* and clearBoard calls were made and merged.
C36StrokeIdsUnique ==
  FreshAdds =>
    \A r \in Rep : \A i, j \in 1..Len(pub[r].paths) :
      i # j => pub[r].paths[i].id # pub[r].paths[j].id

\* the update removes an entry of the stroke collection that carries the id
Removes(u, id) ==
  \E x \in u.dels :
    /\ x[1] = <<"paths", "-">>
    /\ \E k \in 1..Len(PathItems(doc[1])) :
         PathItems(doc[1])[k].id = x[2] /\ PathItems(doc[1])[k].val.id = id

\* C37: when a deletePaths or a clearBoard of one participant removed a
\* stroke and an updatePaths of another participant replaced the same stroke,
\* neither knowing of the other, and everything is merged, no participant
\* shows a stroke with that id (every stroke having been added under an id of
\* its own).
C37DeletionNotUndone ==
  (Quiescent /\ FreshAdds) =>
    \A s \in Rep : \A t \in Rep \ {s} :
      \A i \in 1..Len(log[s]), j \in 1..Len(log[t]), id \in PathIds :
        (/\ log[s][i].op \in {"deletePaths", "clearBoard"}
         /\ log[t][j].op = "updatePaths"
         /\ Removes(log[s][i], id)
         /\ Removes(log[t][j], id)
         /\ log[s][i].dep[t] < j
         /\ log[t][j].dep[s] < i) =>
          \A r \in Rep : \A k \in 1..Len(pub[r].paths) : pub[r].paths[k].id # id


----------------------------------------------------------------------------
(* Gestures in progress on the canvas, under SpecSelect *)

\* the gestures the interaction state of Whiteboard holds as pending: the
\* drawing flag of the pen and the eraser, and the four nullable states
ActiveGestures(u) ==
  {g \in {"drawing", "dragItem", "resizeItem", "pathTransform", "selectionRect"} :
     \/ g = "drawing" /\ u.isDrawing
     \/ g = "dragItem" /\ u.dragItem # <<>>
     \/ g = "resizeItem" /\ u.resizeItem # <<>>
     \/ g = "pathTransform" /\ u.pathTransform # <<>>
     \/ g = "selectionRect" /\ u.selectionRect # <<>>}

\* C38: at most one gesture is in progress at any time: of drawing or erasing,
\* dragging an item, resizing an item, transforming strokes and selecting with
\* the marquee, at most one is active, whatever pointer events have arrived,
\* a second pointer-down during a gesture included.
C38AtMostOneGesture == \A r \in Rep : Cardinality(ActiveGestures(ui[r])) <= 1


----------------------------------------------------------------------------
(* Erasing what the pen committed, under SpecPen *)

\* pos is one of the points of the stroke
HasPoint(path, pos) == \E i \in 1..Len(path.points) : path.points[i] = pos

\* C39: every stroke a Pen gesture can commit can be erased: an accepted
\* Eraser press at one of the points of a committed stroke, a stroke of a
\* single point included, removes the stroke from the page.
C39CommittedStrokeErasable ==
  [][\A pos \in ErasePoints :
       (ui[1].tool = "ERASER" /\ budget > 0 /\ EraserDown(1, pos, TRUE)) =>
         \A k \in 1..Len(pub[1].paths) :
           HasPoint(pub[1].paths[k], pos) =>
             \A j \in 1..Len(pub'[1].paths) : pub'[1].paths[j].id # pub[1].paths[k].id]_vars


----------------------------------------------------------------------------
(* Content and meta of notes, images and files, under SpecBoard *)

\* the keys of the map ty of document d among ids
MapKeys(d, ty, ids) == {id \in ids : YMapHas(d, ty, id)}

\* C40: content and meta stay paired: once every operation is delivered
\* everywhere, on every replica an id is a key of notes_meta, images_meta or
\* files_meta exactly if it is a key of notes, images or files, whatever adds,
\* updates and deletes the participants have interleaved.
C40ContentMetaPaired ==
  Quiescent =>
    \A r \in Rep :
      /\ MapKeys(doc[r], "notes_meta", NoteIds) = MapKeys(doc[r], "notes", NoteIds)
      /\ MapKeys(doc[r], "images_meta", ImageIds) = MapKeys(doc[r], "images", ImageIds)
      /\ MapKeys(doc[r], "files_meta", FileIds) = MapKeys(doc[r], "files", FileIds)

====
